---- MODULE Spec2Model ----
(***************************************************************************)
(* Model of the per-document cancellable lint orchestration of the         *)
(* actionlint VS Code extension: ActionlintLinter (src/src/linter.ts,      *)
(* the CancellableTask variant, lines 250-639) driving CancellableTask     *)
(* (src/unnamed/part_005) and the debounce helper (src/src/utils.ts).      *)
(*                                                                         *)
(* Scheduling: JavaScript's single-threaded event loop.  Editor events,    *)
(* timer expiry and the runner's completion callback are macrotasks.  The  *)
(* continuation of lintDocument after `await task.run(...)` is a microtask *)
(* queued by the continuation of CancellableTask.run, so no macrotask can  *)
(* run between the two (guard MicrotasksDrained).                          *)
(***************************************************************************)
EXTENDS Integers, Sequences, FiniteSets, TLC

\* ---------------------------------------------------------------- bounds
MaxRuns == 2          \* lintDocument calls that reach the runner
MaxFindings == 1      \* findings in one runner result

\* ------------------------------------------------------------- universe
Docs == {"a", "b"}
DocOrder == <<"a", "b">>     \* iteration order of workspace.textDocuments
None == "none"               \* no active text editor
Triggers == {"onSave", "onType"}
Configs == [enable : BOOLEAN, runTrigger : Triggers]

VARIABLES
  runs,              \* one record per lintDocument call that reached task.run
  tasks,             \* ActionlintLinter.tasks: Map<uri, CancellableTask>
  current,           \* CancellableTask.current of every task object created
  aborted,           \* entries whose AbortController signal is aborted
  diagnostics,       \* the DiagnosticCollection: Map<uri, Diagnostic[]>
  debouncedLints,    \* keys of ActionlintLinter.debouncedLints
  timers,            \* documents with a pending debounce setTimeout
  disposed,          \* ActionlintLinter.disposed
  notInstalled,      \* ActionlintLinter._notInstalled
  unexpectedOutput,  \* ActionlintLinter._unexpectedOutput
  statusBar,         \* StatusBar._state
  notifications,     \* count of showErrorMessage / showWarningMessage calls
  listeners,         \* which event subscriptions are attached
  config,            \* what getConfig() returns now
  openDocs,          \* vscode.workspace.textDocuments
  activeDoc,         \* document of vscode.window.activeTextEditor
  cancelled,         \* history: pending runs that were current at a cancel()
  closedRuns,        \* history: pending runs whose document closed meanwhile
  proc,              \* one call of runActionlint: its signal, process, result
  eval,              \* one evaluation of a pure function: arguments and value
  deb,               \* one debounced function, its timers and its invocations
  ops                \* the linter with operation ids: its fields and its runs

linterVars ==
  <<runs, tasks, current, aborted, diagnostics, debouncedLints, timers,
    disposed, notInstalled, unexpectedOutput, statusBar, notifications,
    listeners, config, openDocs, activeDoc, cancelled, closedRuns>>

vars == <<linterVars, proc, eval, deb, ops>>

envVars == <<config, openDocs, activeDoc>>
flagVars == <<notInstalled, unexpectedOutput>>
histVars == <<cancelled, closedRuns>>

\* ------------------------------------------------------------ Map helpers
EmptyMap == [x \in {} |-> 0]
MapSet(m, k, v) == [x \in (DOMAIN m) \cup {k} |-> IF x = k THEN v ELSE m[x]]
MapDelete(m, k) == [x \in (DOMAIN m) \ {k} |-> m[x]]
MapHas(m, k) == k \in DOMAIN m

RunIds == 1..Len(runs)

\* ------------------------------------------------------------ RunResult
\* executionError: "" (absent), "not found" (text contains "not found"),
\* "other".  errors: the findings, here told apart by their line.
NoResult == [executionError |-> "", warning |-> FALSE, errors |-> <<>>]
Findings(n) == IF n = 0 THEN <<>> ELSE [i \in 1..n |-> [line |-> i]]
SuccessResult(n) ==
  [executionError |-> "", warning |-> FALSE, errors |-> Findings(n)]
WarningResult ==
  [executionError |-> "", warning |-> TRUE, errors |-> <<>>]
ErrorResult(text) ==
  [executionError |-> text, warning |-> FALSE, errors |-> <<>>]
RunResults ==
  {SuccessResult(n) : n \in 0..MaxFindings}
    \cup {WarningResult, ErrorResult("not found"), ErrorResult("other")}

\* One Diagnostic per finding, in order.
toDiagnostics(errors) ==
  IF errors = <<>> THEN <<>>
  ELSE [i \in 1..Len(errors) |->
          [source |-> "actionlint", from |-> errors[i]]]

\* ------------------------------------------------------------ documents
\* A document as the linter sees it: language id, uri scheme, and the
\* fsPath as separator, directories, and stem and extension of the file name.
LanguageIds == {"yaml", "github-actions-workflow", "json", "plaintext"}
Schemes == {"file", "untitled", "git"}
DirLists ==
  {<<".github", "workflows">>, <<"repo", ".github", "workflows">>,
   <<"x.github", "workflows">>, <<".github", "workflows", "sub">>,
   <<"github", "workflows">>, <<".github">>, <<"workflows">>, <<>>}
FsPaths == [sep : {"/", "\\"}, dirs : DirLists, stem : {"ci", ""},
            ext : {"yml", "yaml", "YML", "json"}]
TextDocuments == [languageId : LanguageIds, scheme : Schemes, fsPath : FsPaths]

\* normalizePath(filePath): backslashes become forward slashes
normalizePath(filePath) == [filePath EXCEPT !.sep = "/"]

\* A directory name that ends with ".github"
EndsWithDotGithub(dir) == dir \in {".github", "x.github"}

\* Variant: any depth of directories below workflows is accepted.
TestWorkflowPathAnyDepth(filePath) ==
  /\ filePath.sep = "/"
  /\ \E i \in 1..(Len(filePath.dirs) - 1) :
       /\ EndsWithDotGithub(filePath.dirs[i])
       /\ filePath.dirs[i + 1] = "workflows"
  /\ filePath.stem # ""
  /\ filePath.ext \in {"yml", "yaml"}

\* /\.github\/workflows\/[^/]+\.(yml|yaml)$/.test(filePath)
TestWorkflowPath(filePath) ==
  /\ filePath.sep = "/"
  /\ Len(filePath.dirs) >= 2
  /\ EndsWithDotGithub(filePath.dirs[Len(filePath.dirs) - 1])
  /\ filePath.dirs[Len(filePath.dirs)] = "workflows"
  /\ filePath.stem # ""
  /\ filePath.ext \in {"yml", "yaml"}

isWorkflowFile(document) ==
  /\ document.languageId \in {"yaml", "github-actions-workflow"}
  /\ TestWorkflowPath(normalizePath(document.fsPath))
IsFileScheme(document) == document.scheme = "file"

\* The documents of Docs are workflow files on disk.
TextDocument(d) ==
  [languageId |-> "yaml", scheme |-> "file",
   fsPath |-> [sep |-> "/", dirs |-> <<"repo", ".github", "workflows">>,
               stem |-> d, ext |-> "yml"]]
isActiveDocument(d) == activeDoc # None /\ activeDoc = d

\* --------------------------------------------------------- CancellableTask
\* The part of the state the synchronous code of the linter works on.
LinterState ==
  [runs |-> runs, tasks |-> tasks, current |-> current, aborted |-> aborted,
   diagnostics |-> diagnostics, statusBar |-> statusBar,
   cancelled |-> cancelled]

\* The entry e belongs to a run whose operation has not settled.  (The
\* signal of a settled run has no listener left; its state is not kept.)
Live(s, e) == e # 0 /\ s.runs[e].st = "awaitRunner"

Abort(s, e) == IF Live(s, e) THEN s.aborted \cup {e} ELSE s.aborted

\* Variant: the previous run's signal is left alone.
TaskRunNoAbort(s, t, e) ==
  [s EXCEPT !.current = [s.current EXCEPT ![t] = e]]

\* Variant: a run started while the slot is occupied is not installed.
TaskRunKeepOccupant(s, t, e) ==
  [s EXCEPT !.aborted = Abort(s, s.current[t]),
            !.current = [s.current EXCEPT ![t] = IF @ = 0 THEN e ELSE @]]

\* run(), up to the await: abort the previous entry, install entry e.
TaskRun(s, t, e) ==
  [s EXCEPT !.aborted = Abort(s, s.current[t]),
            !.current = [s.current EXCEPT ![t] = e]]

\* Variant: cancel() aborts the signal but leaves the entry in the slot.
TaskCancelKeepEntry(s, t) ==
  [s EXCEPT !.aborted = Abort(s, s.current[t]),
            !.cancelled = IF Live(s, s.current[t]) THEN @ \cup {s.current[t]}
                          ELSE @]

\* cancel(): abort the current entry if any, empty the slot.
TaskCancel(s, t) ==
  [s EXCEPT !.aborted = Abort(s, s.current[t]),
            !.cancelled = IF Live(s, s.current[t]) THEN @ \cup {s.current[t]}
                          ELSE @,
            !.current = [s.current EXCEPT ![t] = 0]]

\* ------------------------------------------------------- ActionlintLinter
\* getTask(key): the task of the key, created (with identity e) if missing.
getTask(s, d, e) ==
  IF MapHas(s.tasks, d) THEN s
  ELSE [s EXCEPT !.tasks = MapSet(@, d, e), !.current = MapSet(@, e, 0)]

\* Variant: the enable setting is not looked at.
lintDocumentOfAlways(s, d, document, cfg) ==
  IF ~isWorkflowFile(document) THEN s
  ELSE IF ~IsFileScheme(document) THEN s
  ELSE
    LET e == Len(s.runs) + 1
        s1 == getTask(s, d, e)
        t == s1.tasks[d]
        s2 == [s1 EXCEPT !.statusBar =
                 IF isActiveDocument(d) THEN "running" ELSE @]
        s3 == TaskRun(s2, t, e)
    IN [s3 EXCEPT !.runs = Append(@,
          [doc |-> d, task |-> t, st |-> "awaitRunner", result |-> NoResult,
           ret |-> "pending"])]

\* lintDocument up to `await task.run(...)`, under configuration cfg, for
\* the document `document` whose uri is the key d.
lintDocumentOf(s, d, document, cfg) ==
  IF ~cfg.enable THEN
    [s EXCEPT !.diagnostics = MapDelete(@, d),
              !.statusBar = IF isActiveDocument(d) THEN "idle" ELSE @]
  ELSE IF ~isWorkflowFile(document) THEN s
  ELSE IF ~IsFileScheme(document) THEN s
  ELSE
    LET e == Len(s.runs) + 1
        s1 == getTask(s, d, e)
        t == s1.tasks[d]
        s2 == [s1 EXCEPT !.statusBar =
                 IF isActiveDocument(d) THEN "running" ELSE @]
        s3 == TaskRun(s2, t, e)
    IN [s3 EXCEPT !.runs = Append(@,
          [doc |-> d, task |-> t, st |-> "awaitRunner", result |-> NoResult,
           ret |-> "pending"])]

lintDocumentSync(s, d, cfg) == lintDocumentOf(s, d, TextDocument(d), cfg)

RECURSIVE lintSeq(_, _, _)
lintSeq(s, ds, cfg) ==
  IF ds = <<>> THEN s
  ELSE lintSeq(lintDocumentSync(s, Head(ds), cfg), Tail(ds), cfg)

OpenSeq(open) == SelectSeq(DocOrder, LAMBDA d : d \in open)

\* lintOpenDocuments(): lintDocument for each open document.
lintOpenDocuments(s, open, cfg) == lintSeq(s, OpenSeq(open), cfg)

\* dispose(), task part: cancel() on every task in the map.
RECURSIVE cancelAll(_, _)
cancelAll(s, ds) ==
  IF ds = {} THEN s
  ELSE LET d == CHOOSE x \in ds : TRUE
       IN cancelAll(TaskCancel(s, s.tasks[d]), ds \ {d})

\* Variant: closing one document cancels the tasks of all documents.
cleanupTaskAll(s, d) ==
  [cancelAll(s, DOMAIN s.tasks) EXCEPT !.tasks = MapDelete(@, d)]

\* cleanupDocument(key), task part: cancel the key's task and evict it.
\* (getTask creates a task for a key that has none; it is cancelled while
\* idle and evicted at once, which leaves no trace.)
cleanupTask(s, d) ==
  IF MapHas(s.tasks, d)
  THEN [TaskCancel(s, s.tasks[d]) EXCEPT !.tasks = MapDelete(@, d)]
  ELSE s

Commit(s) ==
  /\ runs' = s.runs
  /\ tasks' = s.tasks
  /\ current' = s.current
  /\ aborted' = s.aborted
  /\ diagnostics' = s.diagnostics
  /\ statusBar' = s.statusBar
  /\ cancelled' = s.cancelled

\* Runs the next lintDocument call(s) would start, against the bound.
CanStart(cfg, k) == cfg.enable => Len(runs) + k <= MaxRuns

\* No continuation of lintDocument is queued.
MicrotasksDrained == \A r \in RunIds : runs[r].st # "returned"

\* updateStatusBarForEditor(editor)
StatusFor(d) ==
  IF d = None \/ ~isWorkflowFile(TextDocument(d)) THEN "hidden"
  ELSE IF MapHas(diagnostics, d) /\ Len(diagnostics[d]) > 0 THEN "errors"
  ELSE IF notInstalled THEN "notInstalled"
  ELSE IF unexpectedOutput THEN "unexpectedOutput"
  ELSE "idle"

\* registerTriggerListeners(): save always, change only for onType.
\* Variant: the change listener is registered under either policy.
TriggerListenersBoth(cfg) == {"save", "change"}
\* registerTriggerListeners(): save always, change under onType
TriggerListeners(cfg) ==
  IF cfg.runTrigger = "onType" THEN {"save", "change"} ELSE {"save"}
PermanentListeners == {"config", "close", "open", "editor"}

\* ------------------------------------------------- result handling
HandlerState ==
  [diagnostics |-> diagnostics, statusBar |-> statusBar,
   notInstalled |-> notInstalled, unexpectedOutput |-> unexpectedOutput,
   notifications |-> notifications]

LatestRun(d) ==
  CHOOSE r \in RunIds :
    runs[r].doc = d /\ \A q \in RunIds : runs[q].doc = d => q <= r

\* Variant: the collection is replaced, not the document's entry.
SetDiagnosticsReplaceAll(h, r, d, diags) ==
  [h EXCEPT !.diagnostics = MapSet(EmptyMap, d, diags)]

\* this.diagnostics.set(document.uri, diags)
SetDiagnostics(h, r, d, diags) ==
  [h EXCEPT !.diagnostics = MapSet(@, d, diags)]

ShowErrorMessage(h) ==
  [h EXCEPT !.notifications = [@ EXCEPT !.error = @ + 1]]
ShowWarningMessage(h) ==
  [h EXCEPT !.notifications = [@ EXCEPT !.warning = @ + 1]]

\* Variant: every execution error notifies.
ShouldNotifyAlways(isNotFound, wasNotInstalled) == TRUE

\* Variant: every execution error is suppressed while not installed.
ShouldNotifyFirstOnly(isNotFound, wasNotInstalled) == ~wasNotInstalled

\* `if (!isNotFound || !this._notInstalled)`
ShouldNotifyError(isNotFound, wasNotInstalled) ==
  ~isNotFound \/ ~wasNotInstalled

\* if (result.executionError) { ... return; }
HandleExecutionError(h, r, d, res) ==
  LET isNotFound == res.executionError = "not found"
      h1 == [h EXCEPT !.statusBar =
               IF isNotFound THEN "notInstalled"
               ELSE IF isActiveDocument(d) THEN "idle" ELSE @]
      h2 == IF ShouldNotifyError(isNotFound, h1.notInstalled)
            THEN ShowErrorMessage(h1) ELSE h1
  IN IF isNotFound THEN [h2 EXCEPT !.notInstalled = TRUE] ELSE h2

\* Variant: a warning leaves the document's stored findings in place.
HandleWarningKeepDiags(h, r, d, res) ==
  [h EXCEPT !.notInstalled = FALSE, !.unexpectedOutput = TRUE,
            !.statusBar = "unexpectedOutput"]

\* if (result.warning) { ... return; }
HandleWarning(h, r, d, res) ==
  LET h1 == SetDiagnostics(h, r, d, <<>>)
      h2 == [h1 EXCEPT !.notInstalled = FALSE, !.unexpectedOutput = TRUE,
                       !.statusBar = "unexpectedOutput"]
  IN IF ~h2.unexpectedOutput
     THEN ShowWarningMessage([h2 EXCEPT !.unexpectedOutput = TRUE])
     ELSE h2

\* Variant: the success path leaves the status indicator alone.
HandleSuccessKeepStatus(h, r, d, res) ==
  SetDiagnostics([h EXCEPT !.notInstalled = FALSE,
                           !.unexpectedOutput = FALSE],
                 r, d, toDiagnostics(res.errors))

\* Variant: the new findings are appended to the stored ones.
HandleSuccessMerge(h, r, d, res) ==
  LET old == IF MapHas(h.diagnostics, d) THEN h.diagnostics[d] ELSE <<>>
      diags == old \o toDiagnostics(res.errors)
      h1 == [h EXCEPT !.notInstalled = FALSE, !.unexpectedOutput = FALSE]
      h2 == SetDiagnostics(h1, r, d, IF diags = <<>> THEN <<>> ELSE diags)
  IN IF isActiveDocument(d)
     THEN [h2 EXCEPT !.statusBar =
             IF Len(diags) > 0 THEN "errors" ELSE "idle"]
     ELSE h2

\* the success path
HandleSuccess(h, r, d, res) ==
  LET wasGlobalWarning == h.notInstalled \/ h.unexpectedOutput
      diags == toDiagnostics(res.errors)
      h1 == [h EXCEPT !.notInstalled = FALSE, !.unexpectedOutput = FALSE]
      h2 == SetDiagnostics(h1, r, d, diags)
  IN IF isActiveDocument(d)
     THEN [h2 EXCEPT !.statusBar =
             IF Len(diags) > 0 THEN "errors" ELSE "idle"]
     ELSE IF wasGlobalWarning THEN [h2 EXCEPT !.statusBar = "idle"]
     ELSE h2

\* `if (result === undefined) return;`
IsStale(ret) == ret = "undefined"

\* Variant: a stale result resets the status indicator.
StaleOutcomeIdle(h) == [h EXCEPT !.statusBar = "idle"]

\* The stale branch: a debug log line, then return.
StaleOutcome(h) == h

\* Variant: results are applied after dispose().
DisposedGuardOff == FALSE

\* `if (this.disposed) return;`
DisposedGuard == disposed

\* lintDocument after `await task.run(...)`
HandleResult(h, r) ==
  LET d == runs[r].doc
      res == runs[r].result
  IN IF IsStale(runs[r].ret) THEN StaleOutcome(h)
     ELSE IF DisposedGuard THEN h
     ELSE IF res.executionError # "" THEN HandleExecutionError(h, r, d, res)
     ELSE IF res.warning THEN HandleWarning(h, r, d, res)
     ELSE HandleSuccess(h, r, d, res)

CommitHandler(h) ==
  /\ diagnostics' = h.diagnostics
  /\ statusBar' = h.statusBar
  /\ notInstalled' = h.notInstalled
  /\ unexpectedOutput' = h.unexpectedOutput
  /\ notifications' = h.notifications


\* ------------------------------------------------------------ runActionlint
\* What execFile hands to its callback.  error: null, or an error whose
\* `code` is a string (spawn failure), a number (exit status) or missing,
\* with its `killed` flag.  stdout: its text, with or without surrounding
\* white space.
ExitCodes == 0..3
ErrorCodes ==
  {[kind |-> "string", str |-> c, num |-> 0] : c \in {"ENOENT", "EACCES"}}
    \cup {[kind |-> "number", str |-> "", num |-> n] : n \in ExitCodes \ {0}}
    \cup {[kind |-> "absent", str |-> "", num |-> 0]}
NoError == [present |-> FALSE, code |-> [kind |-> "absent", str |-> "", num |-> 0],
            killed |-> FALSE]
ExecErrors ==
  {NoError} \cup [present : {TRUE}, code : ErrorCodes, killed : BOOLEAN]
StdoutBodies ==
  {"", "null", "[]", "array", "object", "garbage", "long garbage"}
Stdouts == [pad : BOOLEAN, body : StdoutBodies]
NoStdout == [pad |-> FALSE, body |-> ""]
\* stderr: empty, or a text without or with the words "not found".
Stderrs == {"", "fatal error", "shellcheck: not found"}

\* stdout.trim()
Trim(out) == out.body

\* JSON.parse(output): "array" stands for a JSON array of one finding,
\* "object" for JSON that is not an array, "garbage" and "long garbage" for
\* a short and a long text that do not parse.
ParseThrows(output) == output \in {"garbage", "long garbage"}
ParsedIsArray(output) == output \in {"[]", "array"}
ParsedFindings(output) == IF output = "array" THEN Findings(1) ELSE <<>>

\* The value a call resolves with: the RunResult fields the linter reads,
\* and whether done() attached command and args.
\* executionError is a fixed text followed by a captured one (detail).
RunnerResult(err, errors, withCommand) ==
  [executionError |-> err, detail |-> "", warning |-> FALSE,
   errors |-> errors, command |-> withCommand]
WithDetail(res, text) == [res EXCEPT !.detail = text]

\* The number of characters of a captured text; the long output has
\* LongOutputLength of them.
LongOutputLength == 1000
TextLength(text) ==
  CASE text = "" -> 0
    [] text = "null" -> 4
    [] text = "[]" -> 2
    [] text = "garbage" -> 7
    [] text = "long garbage" -> LongOutputLength
    [] OTHER -> 20
\* `Failed to parse actionlint output: ` has 35 characters.
ParsePrefixLength == 35
\* executionError.length and executionError.includes("... (") of a result
\* of the parse failure branch
ParseErrorLength(res) == ParsePrefixLength + TextLength(res.detail)
IncludesTruncationMarker(res) == res.detail \in {}

\* text.includes("not found")
IncludesNotFound(text) ==
  text \in {"binary not found", "shellcheck: not found"}

\* result.executionError.includes("not found"), as lintDocument tests it
isNotFound(res) ==
  IncludesNotFound(res.executionError) \/ IncludesNotFound(res.detail)
CancelledResult == RunnerResult("", <<>>, FALSE)

\* The execFile callback after its abort test: the classification of
\* (error, stdout).
ExecOutcome(error, stdout, stderr) ==
  IF error.present /\ error.code.kind = "string" /\ error.code.str = "ENOENT"
  THEN RunnerResult("binary not found", <<>>, TRUE)
  ELSE IF error.present /\ error.killed
  THEN RunnerResult("process was killed", <<>>, TRUE)
  ELSE IF error.present /\ error.code.kind = "string"
          /\ error.code.str # "ENOENT"
  THEN WithDetail(RunnerResult("execution failed", <<>>, TRUE),
                  error.code.str)
  ELSE
    LET exitCode == IF error.present /\ error.code.kind = "number"
                    THEN error.code.num ELSE 0
        output == Trim(stdout)
    IN IF exitCode >= 2
       THEN WithDetail(RunnerResult("exited with code", <<>>, TRUE),
                       IF stderr # "" THEN stderr
                       ELSE IF stdout.body # "" \/ stdout.pad THEN stdout.body
                       ELSE "unknown error")
       ELSE IF output = "" \/ output = "null" \/ output = "[]"
       THEN RunnerResult("", <<>>, TRUE)
       ELSE IF ParseThrows(output)
       THEN WithDetail(RunnerResult("failed to parse", <<>>, TRUE),
                       stdout.body)
       ELSE IF ~ParsedIsArray(output)
       THEN RunnerResult("unexpected output format", <<>>, TRUE)
       ELSE RunnerResult("", ParsedFindings(output), TRUE)

\* Variant: the callback does not look at the signal.
ExecCallbackIgnoreAbort(signalAborted, error, stdout, stderr) ==
  ExecOutcome(error, stdout, stderr)

\* The execFile callback: `if (signal?.aborted) { resolve({ errors: [] }) }`,
\* then the classification.
ExecCallback(signalAborted, error, stdout, stderr) ==
  IF signalAborted THEN CancelledResult
  ELSE ExecOutcome(error, stdout, stderr)

\* No call of runActionlint is modelled.
NoCall ==
  [phase |-> "none", aborted |-> FALSE, abortedAtCall |-> FALSE,
   spawned |-> FALSE, error |-> NoError, stdout |-> NoStdout, stderr |-> "",
   result |-> CancelledResult]

\* runActionlint(...) is called with a signal that is or is not aborted.
RunnerCall ==
  /\ proc.phase = "called"
  /\ proc' = IF proc.aborted
             THEN [proc EXCEPT !.phase = "resolved", !.abortedAtCall = TRUE,
                               !.result = CancelledResult]
             ELSE [proc EXCEPT !.phase = "running", !.spawned = TRUE]
  /\ UNCHANGED <<linterVars, eval, deb, ops>>

\* The signal is aborted while the subprocess runs.
SignalAbort ==
  /\ proc.phase = "running"
  /\ ~proc.aborted
  /\ proc' = [proc EXCEPT !.aborted = TRUE]
  /\ UNCHANGED <<linterVars, eval, deb, ops>>

\* execFile calls back with (error, stdout, stderr).
ProcessExit(error, stdout, stderr) ==
  /\ proc.phase = "running"
  /\ proc' = [proc EXCEPT !.phase = "resolved", !.error = error,
                          !.stdout = stdout, !.stderr = stderr,
                          !.result = ExecCallback(proc.aborted, error, stdout,
                                                  stderr)]
  /\ UNCHANGED <<linterVars, eval, deb, ops>>


\* ------------------------------------------------------------ pure functions
\* No function has been evaluated.
NoEval == [fn |-> "none"]

\* The configuration fields runActionlint builds its arguments from.
ArgLists == {<<>>, <<"--color">>, <<"--color", "--verbose">>}
IgnoreLists == {<<>>, <<"SC2086">>, <<"SC2086", "deprecated">>}
RunnerConfigs ==
  [ignoreErrors : IgnoreLists, shellcheckExecutable : {"", "/bin/shellcheck"},
   pyflakesExecutable : {"", "/bin/pyflakes"}, additionalArgs : ArgLists]
FilePaths == {".github/workflows/ci.yml", ".github\\workflows\\ci.yml"}

\* filePath.replace(/\\/g, "/"), on the paths of FilePaths
SlashPath(filePath) ==
  IF filePath = ".github\\workflows\\ci.yml" THEN ".github/workflows/ci.yml"
  ELSE filePath

\* for (const pattern of config.ignoreErrors) args.push("-ignore", pattern)
RECURSIVE IgnoreArgs(_)
IgnoreArgs(patterns) ==
  IF patterns = <<>> THEN <<>>
  ELSE <<"-ignore", Head(patterns)>> \o IgnoreArgs(Tail(patterns))

\* Variant: additionalArgs are passed whatever the trust.
BuildArgsAlwaysExtra(cfg, isTrusted, filePath) ==
  <<"-format", "{{json .}}", "-stdin-filename", SlashPath(filePath)>>
    \o IgnoreArgs(cfg.ignoreErrors)
    \o (IF cfg.shellcheckExecutable # ""
        THEN <<"-shellcheck", cfg.shellcheckExecutable>> ELSE <<>>)
    \o (IF cfg.pyflakesExecutable # ""
        THEN <<"-pyflakes", cfg.pyflakesExecutable>> ELSE <<>>)
    \o cfg.additionalArgs
    \o <<"-">>

\* The argument list runActionlint passes to execFile.
BuildArgs(cfg, isTrusted, filePath) ==
  <<"-format", "{{json .}}", "-stdin-filename", SlashPath(filePath)>>
    \o IgnoreArgs(cfg.ignoreErrors)
    \o (IF cfg.shellcheckExecutable # ""
        THEN <<"-shellcheck", cfg.shellcheckExecutable>> ELSE <<>>)
    \o (IF cfg.pyflakesExecutable # ""
        THEN <<"-pyflakes", cfg.pyflakesExecutable>> ELSE <<>>)
    \o (IF isTrusted THEN cfg.additionalArgs ELSE <<>>)
    \o <<"-">>

\* runActionlint builds its arguments.
EvalBuildArgs ==
  /\ eval = NoEval
  /\ \E cfg \in RunnerConfigs : \E isTrusted \in BOOLEAN : \E path \in FilePaths :
       eval' = [fn |-> "buildArgs", cfg |-> cfg, isTrusted |-> isTrusted,
                path |-> path, out |-> BuildArgs(cfg, isTrusted, path)]
  /\ UNCHANGED <<linterVars, proc, deb, ops>>

\* A JavaScript undefined where a string is expected.
Undef == "undefined"

\* ---------------------------------------------------- diagnostics.ts
\* Text is a sequence of characters; LF ends a line.
LF == "LF"
SP == " "
RunKw == <<"r", "u", "n", ":">>
BlockDoc ==
  RunKw \o <<SP, "|", LF, LF, SP, SP, "x", SP, SP, LF, SP, SP, "y", "y">>
QuotedDoc == <<SP, SP>> \o RunKw \o <<SP, "'", "a", "b", "'", SP, LF, "z">>
PlainDoc == RunKw \o <<SP, "a", "b">>
EmptyRunDoc == RunKw \o <<SP, LF, "x">>
BlankBodyDoc == RunKw \o <<SP, ">", LF, SP, LF>>
NoRunDoc == <<"a", "b", LF, "c">>
NoText == [defined |-> FALSE, text |-> <<>>]
DocumentTexts ==
  {NoText} \cup
  {[defined |-> TRUE, text |-> t] :
     t \in {BlockDoc, QuotedDoc, PlainDoc, EmptyRunDoc, BlankBodyDoc, NoRunDoc}}

\* documentText.split("\n")
RECURSIVE SplitFrom(_, _, _)
SplitFrom(text, i, line) ==
  IF i > Len(text) THEN <<line>>
  ELSE IF text[i] = LF THEN <<line>> \o SplitFrom(text, i + 1, <<>>)
  ELSE SplitFrom(text, i + 1, Append(line, text[i]))
Split(text) == SplitFrom(text, 1, <<>>)

\* String.prototype.trimStart, trimEnd, trim
RECURSIVE trimStart(_)
trimStart(t) ==
  IF t # <<>> /\ Head(t) = SP THEN trimStart(Tail(t)) ELSE t
RECURSIVE trimEnd(_)
trimEnd(t) ==
  IF t # <<>> /\ t[Len(t)] = SP THEN trimEnd(SubSeq(t, 1, Len(t) - 1)) ELSE t
trim(t) == trimEnd(trimStart(t))

\* text.indexOf("run:"), 0-based, -1 when absent
indexOfRun(t) ==
  LET hits == {i \in 0..(Len(t) - 4) : SubSeq(t, i + 1, i + 4) = RunKw}
  IN IF hits = {} THEN -1 ELSE CHOOSE i \in hits : \A j \in hits : i <= j
\* text.substring(from)
substring(t, from) == SubSeq(t, from + 1, Len(t))

Max(a, b) == IF a >= b THEN a ELSE b

\* new vscode.Range(...): the endpoints are put in order.
NoRange == [defined |-> FALSE, startLine |-> 0, startCol |-> 0,
            endLine |-> 0, endCol |-> 0]
Range(l1, c1, l2, c2) ==
  IF l2 < l1 \/ (l2 = l1 /\ c2 < c1)
  THEN [defined |-> TRUE, startLine |-> l2, startCol |-> c2,
        endLine |-> l1, endCol |-> c1]
  ELSE [defined |-> TRUE, startLine |-> l1, startCol |-> c1,
        endLine |-> l2, endCol |-> c2]

\* A message is what the two regular expressions see in it: which of them
\* matches ("plain": neither), and the groups captured.  \d+ captures no
\* sign, so a captured number is not negative.
ScriptLines == 0..3
ScriptCols == 0..3
SeverityTokens == {"error", "warning", "info", "style"}
PlainMessage == [form |-> "plain", sev |-> "", line |-> 0, col |-> 0]
Messages ==
  {PlainMessage} \cup
  [form : {"shellcheck"}, sev : SeverityTokens, line : ScriptLines,
   col : ScriptCols] \cup
  [form : {"pyflakes"}, sev : {""}, line : ScriptLines, col : ScriptCols]

\* resolveScriptRange(runLine, scriptPos, lines)
resolveScriptRange(runLine, scriptPos, lines) ==
  IF runLine < 0 \/ runLine >= Len(lines) THEN NoRange
  ELSE
    LET runText == lines[runLine + 1]
        runIdx == indexOfRun(runText)
    IN IF runIdx = -1 THEN NoRange
       ELSE
         LET afterColon == substring(runText, runIdx + 4)
             value == trimStart(afterColon)
             valueOffset == runIdx + 4 + (Len(afterColon) - Len(value))
         IN IF Len(value) = 0 THEN NoRange
            ELSE IF Head(value) \in {"|", ">"}
            THEN
              LET bodyStart == runLine + 1
                  nonBlank == {i \in bodyStart..(Len(lines) - 1) :
                                 trim(lines[i + 1]) # <<>>}
              IN IF nonBlank = {} THEN NoRange
                 ELSE
                   LET indentRef ==
                         CHOOSE i \in nonBlank : \A j \in nonBlank : i <= j
                       refLine == lines[indentRef + 1]
                       indent == Len(refLine) - Len(trimStart(refLine))
                       docLine == bodyStart + (scriptPos.line - 1)
                       docCol == indent + (scriptPos.col - 1)
                   IN IF docLine < 0 \/ docLine >= Len(lines) THEN NoRange
                      ELSE IF docCol < 0 THEN NoRange
                      ELSE Range(docLine, docCol, docLine,
                                 Max(docCol + 1,
                                     Len(trimEnd(lines[docLine + 1]))))
            ELSE IF scriptPos.line # 1 THEN NoRange
            ELSE
              LET quoteOffset == IF Head(value) \in {"\"", "'"} THEN 1 ELSE 0
                  docCol == valueOffset + quoteOffset + (scriptPos.col - 1)
                  lineText == lines[runLine + 1]
              IN IF docCol < 0 \/ docCol >= Len(lineText) THEN NoRange
                 ELSE Range(runLine, docCol, runLine,
                            Max(docCol + 1, Len(trimEnd(lineText))))

\* Variant: the start column is not clamped.
StartColRaw(err) == err.column - 1
\* const col = Math.max(0, err.column - 1)
StartCol(err) == Max(0, err.column - 1)

\* Variant: the end column is not forced past the start column.
EndColRaw(err) ==
  IF err.end_column > err.column THEN err.end_column ELSE StartCol(err) + 1
\* const endCol = Math.max(col + 1, ...)
EndCol(err) ==
  Max(StartCol(err) + 1,
      IF err.end_column > err.column THEN err.end_column
      ELSE StartCol(err) + 1)

\* Whether the script position of the finding is looked up in the text.
Resolves(err, documentText) ==
  /\ \/ err.kind = "shellcheck" /\ err.message.form = "shellcheck"
     \/ err.kind = "pyflakes" /\ err.message.form = "pyflakes"
  /\ documentText.defined
  /\ err.message.line >= 1
  /\ err.message.col >= 1

\* The range toDiagnostics gives the diagnostic of one finding.
DiagnosticRange(err, documentText) ==
  LET line == Max(0, err.line - 1)
      range == Range(line, StartCol(err), line, EndCol(err))
      resolved ==
        IF Resolves(err, documentText)
        THEN resolveScriptRange(line,
               [line |-> err.message.line, col |-> err.message.col],
               Split(documentText.text))
        ELSE NoRange
  IN IF resolved.defined THEN resolved ELSE range

\* The findings ranges are computed for.
RangeLines == -1..3
RangeColumns == -2..2
RangeEndColumns == -1..3
RangeMessages ==
  {m \in Messages : m.sev \in {"", "error"}}
RangeFindings ==
  {e \in [line : RangeLines, column : RangeColumns,
          end_column : RangeEndColumns,
          kind : {"shellcheck", "pyflakes", "expression"},
          message : RangeMessages] :
     \/ e.message.form = "plain" /\ e.kind # "pyflakes"
     \/ e.message.form = "shellcheck" /\ e.kind # "pyflakes"
        /\ (e.kind = "expression" => e.message.line = 1 /\ e.message.col = 1)
     \/ e.message.form = "pyflakes" /\ e.kind = "pyflakes"}

\* toDiagnostics maps one finding to its range.
EvalToRange ==
  /\ eval = NoEval
  /\ \E err \in RangeFindings : \E documentText \in DocumentTexts :
       eval' = [fn |-> "toRange", err |-> err, documentText |-> documentText,
                out |-> DiagnosticRange(err, documentText)]
  /\ UNCHANGED <<linterVars, proc, deb, ops>>

\* shellcheckSeverityMap
shellcheckSeverityMap ==
  [t \in SeverityTokens |->
     CASE t = "error" -> "Error"
       [] t = "warning" -> "Warning"
       [] t = "info" -> "Information"
       [] t = "style" -> "Hint"]

\* userSeverityMap
UserSeverityNames == {"error", "warning", "information", "hint"}
userSeverityMap ==
  [n \in UserSeverityNames |->
     CASE n = "error" -> "Error"
       [] n = "warning" -> "Warning"
       [] n = "information" -> "Information"
       [] n = "hint" -> "Hint"]

\* kindSeverityMap
ErrorKinds == {"syntax-check", "expression", "action", "workflow-call",
               "shell-name", "matrix", "job-needs"}
WarningKinds == {"events", "runner-label", "permissions", "credentials",
                 "deprecated-commands", "id", "glob", "pyflakes"}
InformationKinds == {"if-cond", "env-var"}
kindSeverityMap ==
  [k \in ErrorKinds \cup WarningKinds \cup InformationKinds |->
     IF k \in ErrorKinds THEN "Error"
     ELSE IF k \in WarningKinds THEN "Warning"
     ELSE "Information"]

\* The kinds of findings, one of them in no table, and the values a user
\* may have written for a kind in the severity setting.
SeverityKinds == DOMAIN kindSeverityMap \cup {"shellcheck", "unknown-kind"}
OverrideValues == UserSeverityNames \cup {"info", "bogus"}
Overrides ==
  {[k \in SeverityKinds |-> IF k = key THEN v ELSE Undef] :
     key \in SeverityKinds, v \in OverrideValues \cup {Undef}}
SeverityMessages == {m \in Messages : m.line = 1 /\ m.col = 1} \cup {PlainMessage}

\* Variant: the message of a shellcheck finding is looked at first.
toSeverityMessageFirst(kind, message, overrides) ==
  IF kind = "shellcheck" /\ message.form = "shellcheck"
  THEN shellcheckSeverityMap[message.sev]
  ELSE IF overrides[kind] # Undef /\ overrides[kind] \in DOMAIN userSeverityMap
  THEN userSeverityMap[overrides[kind]]
  ELSE IF kind \in DOMAIN kindSeverityMap THEN kindSeverityMap[kind]
  ELSE "Error"

\* toSeverity(kind, message, overrides)
toSeverity(kind, message, overrides) ==
  IF overrides[kind] # Undef /\ overrides[kind] \in DOMAIN userSeverityMap
  THEN userSeverityMap[overrides[kind]]
  ELSE IF kind = "shellcheck" /\ message.form = "shellcheck"
  THEN (IF message.sev \in DOMAIN shellcheckSeverityMap
        THEN shellcheckSeverityMap[message.sev] ELSE "Error")
  ELSE IF kind \in DOMAIN kindSeverityMap THEN kindSeverityMap[kind]
  ELSE "Error"

\* toDiagnostics derives the severity of one finding.
EvalToSeverity ==
  /\ eval = NoEval
  /\ \E kind \in SeverityKinds : \E message \in SeverityMessages :
       \E overrides \in Overrides :
         eval' = [fn |-> "toSeverity", kind |-> kind, message |-> message,
                  overrides |-> overrides,
                  out |-> toSeverity(kind, message, overrides)]
  /\ UNCHANGED <<linterVars, proc, deb, ops>>

\* What cfg.inspect(key) reports: the value of the key in each scope, or
\* Undef.  The value set in a scope is named after the scope.
Scopes ==
  <<"workspaceFolderLanguageValue", "workspaceLanguageValue",
    "globalLanguageValue", "defaultLanguageValue",
    "workspaceFolderValue", "workspaceValue", "globalValue", "defaultValue">>
ScopeSet == {Scopes[i] : i \in 1..Len(Scopes)}
WorkspaceScopes ==
  {"workspaceFolderLanguageValue", "workspaceLanguageValue",
   "workspaceFolderValue", "workspaceValue"}
Inspections == {[sc \in ScopeSet |-> IF sc \in on THEN sc ELSE Undef] :
                  on \in SUBSET ScopeSet}
DefaultOnly == [sc \in ScopeSet |-> IF sc = "defaultValue" THEN sc ELSE Undef]

\* cfg.get(key, fallback): the editor's effective value, the first scope of
\* Scopes that defines one.
RECURSIVE FirstDefined(_, _, _)
FirstDefined(inspected, order, fallback) ==
  IF order = <<>> THEN fallback
  ELSE IF inspected[Head(order)] # Undef THEN inspected[Head(order)]
  ELSE FirstDefined(inspected, Tail(order), fallback)
CfgGet(inspected, fallback) == FirstDefined(inspected, Scopes, fallback)

\* Variant: the workspace value is consulted first.
getTrustedScopeValueWorkspaceFirst(inspected, fallback) ==
  IF inspected["workspaceValue"] # Undef THEN inspected["workspaceValue"]
  ELSE FirstDefined(inspected,
         <<"globalLanguageValue", "globalValue", "defaultLanguageValue",
           "defaultValue">>, fallback)

\* getTrustedScopeValue(cfg, key, fallback)
getTrustedScopeValue(inspected, fallback) ==
  IF inspected["globalLanguageValue"] # Undef
  THEN inspected["globalLanguageValue"]
  ELSE IF inspected["globalValue"] # Undef THEN inspected["globalValue"]
  ELSE IF inspected["defaultLanguageValue"] # Undef
  THEN inspected["defaultLanguageValue"]
  ELSE IF inspected["defaultValue"] # Undef THEN inspected["defaultValue"]
  ELSE fallback

\* getRestrictedValue(cfg, key, fallback, isTrusted)
getRestrictedValue(inspected, fallback, isTrusted) ==
  IF isTrusted THEN CfgGet(inspected, fallback)
  ELSE getTrustedScopeValue(inspected, fallback)

\* The settings getConfig reads: the three restricted keys as inspected,
\* and the effective additionalArgs.
RestrictedKeys == {"executable", "shellcheckExecutable", "pyflakesExecutable"}
SettingsSet ==
  {[keys |-> [k \in RestrictedKeys |-> IF k = key THEN ins ELSE DefaultOnly],
    additionalArgs |-> aa] :
     key \in RestrictedKeys, ins \in Inspections,
     aa \in {<<>>, <<"--color">>}}

\* getConfig(isTrusted), the fields that depend on trust
getConfig(settings, isTrusted) ==
  [executable |->
     getRestrictedValue(settings.keys["executable"], "actionlint", isTrusted),
   shellcheckExecutable |->
     getRestrictedValue(settings.keys["shellcheckExecutable"], "", isTrusted),
   pyflakesExecutable |->
     getRestrictedValue(settings.keys["pyflakesExecutable"], "", isTrusted),
   additionalArgs |-> IF isTrusted THEN settings.additionalArgs ELSE <<>>]

\* getConfig is called.
EvalGetConfig ==
  /\ eval = NoEval
  /\ \E settings \in SettingsSet : \E isTrusted \in BOOLEAN :
       eval' = [fn |-> "getConfig", settings |-> settings,
                isTrusted |-> isTrusted, out |-> getConfig(settings, isTrusted)]
  /\ UNCHANGED <<linterVars, proc, deb, ops>>

\* The uri of the document lintDocument is called for by itself.
EvalDoc == "x"

\* lintDocument(document) is called on the linter at rest.
EvalLintDocument ==
  /\ eval = NoEval
  /\ \E document \in TextDocuments :
       /\ eval' = [fn |-> "lintDocument", document |-> document]
       /\ Commit(lintDocumentOf(LinterState, EvalDoc, document, config))
  /\ UNCHANGED <<debouncedLints, timers, disposed, flagVars, notifications,
                 listeners, envVars, closedRuns, proc, deb, ops>>

\* ------------------------------------------------------ utils.ts: debounce
\* One function made by debounce(fn, delayMs), time counted in ticks.
\* pending: the timers set and neither cleared nor run, each with the ticks
\* left and the arguments its callback holds; timer: the closure's variable
\* (0: undefined); invoked: the arguments fn was called with, in order.
\* lastArgs, age and callsSince record the last call's arguments, the ticks
\* since it, and the calls since the last invocation or cancel().
MaxCalls == 3
DelayMs == 2
DebounceArgs == {"a", "b"}
NoDebounce ==
  [pending |-> {}, timer |-> 0, nextId |-> 1, invoked |-> <<>>,
   lastArgs |-> "", age |-> 0, callsSince |-> 0]

\* clearTimeout(id)
ClearTimeout(db, id) ==
  [db EXCEPT !.pending = {t \in @ : t.id # id}]
\* setTimeout(callback holding args, delayMs), returning the new id
SetTimeout(db, args) ==
  [db EXCEPT !.pending = @ \cup {[id |-> db.nextId, left |-> DelayMs,
                                  args |-> args]},
             !.nextId = @ + 1]

\* Variant: the timer set before is not cleared.
debouncedNoClear(db, args) ==
  [SetTimeout(db, args) EXCEPT !.timer = db.nextId]

\* debounced(...args)
debounced(db, args) ==
  LET cleared == IF db.timer # 0 THEN ClearTimeout(db, db.timer) ELSE db
  IN [SetTimeout(cleared, args) EXCEPT !.timer = cleared.nextId]

\* debounced.cancel()
debouncedCancel(db) ==
  IF db.timer # 0 THEN [ClearTimeout(db, db.timer) EXCEPT !.timer = 0]
  ELSE db

\* The callback of timer t: timer = undefined; fn(...args)
timerCallback(db, t) ==
  [db EXCEPT !.pending = @ \ {t}, !.timer = 0,
             !.invoked = Append(@, t.args)]

\* The debounced function is called.
DebounceCall(args) ==
  /\ deb.nextId <= MaxCalls
  /\ deb' = [debounced(deb, args) EXCEPT !.lastArgs = args, !.age = 0,
                                          !.callsSince = deb.callsSince + 1]
  /\ UNCHANGED <<linterVars, proc, eval, ops>>

\* cancel() is called.
DebounceCancel ==
  /\ deb' = [debouncedCancel(deb) EXCEPT !.callsSince = 0]
  /\ UNCHANGED <<linterVars, proc, eval, ops>>

\* A tick passes: no pending timer is due.
DebounceTick ==
  /\ deb.pending # {}
  /\ \A t \in deb.pending : t.left > 0
  /\ deb' = [deb EXCEPT !.pending = {[t EXCEPT !.left = @ - 1] : t \in @},
                        !.age = IF @ < DelayMs THEN @ + 1 ELSE @]
  /\ UNCHANGED <<linterVars, proc, eval, ops>>

\* A due timer runs its callback.
DebounceFire ==
  /\ \E t \in deb.pending :
       /\ t.left = 0
       /\ deb' = [timerCallback(deb, t) EXCEPT !.callsSince = 0]
  /\ UNCHANGED <<linterVars, proc, eval, ops>>

\* ----------------------------- the linter with per-document operation ids
\* The ActionlintLinter that tells stale results by a per-document operation
\* counter.  Documents are workflow files; log lines and notifications are
\* outputs and leave no state behind.
MaxOpRuns == 3

NoOps ==
  [operationIds |-> EmptyMap, abortControllers |-> EmptyMap, runs |-> <<>>,
   aborted |-> {}, diagnostics |-> EmptyMap, statusBar |-> "idle",
   disposed |-> FALSE, enable |-> FALSE, open |-> {}, active |-> None]

OpRunIds == 1..Len(ops.runs)

\* isActiveDocument(doc)
isActiveDocumentOps(o, d) == o.active # None /\ o.active = d

\* lintDocument up to `await this.runner(...)`
lintDocumentOps(o, d) ==
  IF ~o.enable
  THEN [o EXCEPT !.diagnostics = MapDelete(@, d),
                 !.statusBar = IF isActiveDocumentOps(o, d) THEN "idle" ELSE @]
  ELSE LET prev == IF MapHas(o.operationIds, d) THEN o.operationIds[d] ELSE 0
           currentOp == prev + 1
           controller == Len(o.runs) + 1
       IN [o EXCEPT
             !.operationIds = MapSet(@, d, currentOp),
             !.aborted = IF MapHas(o.abortControllers, d)
                         THEN @ \cup {o.abortControllers[d]} ELSE @,
             !.abortControllers = MapSet(@, d, controller),
             !.statusBar = IF isActiveDocumentOps(o, d) THEN "running" ELSE @,
             !.runs = Append(@, [doc |-> d, op |-> currentOp,
                                 st |-> "awaitRunner", closed |-> FALSE])]

\* lintOpenDocuments(): lintDocument for every open document, in order.
RECURSIVE lintOpenDocumentsOps(_, _)
lintOpenDocumentsOps(o, i) ==
  IF i > Len(DocOrder) THEN o
  ELSE lintOpenDocumentsOps(
         IF DocOrder[i] \in o.open THEN lintDocumentOps(o, DocOrder[i]) ELSE o,
         i + 1)

\* `this.operationIds.delete(key)` in the close handler
CloseOperationIds(ids, d) == MapDelete(ids, d)

\* cleanupDocument(key), abort controller part
cleanupDocumentOps(o, d) ==
  IF MapHas(o.abortControllers, d)
  THEN [o EXCEPT !.aborted = @ \cup {o.abortControllers[d]},
                 !.abortControllers = MapDelete(@, d)]
  ELSE o

\* `if (currentOp !== this.operationIds.get(key))`
IsStaleOp(o, r) ==
  LET d == o.runs[r].doc
  IN ~MapHas(o.operationIds, d) \/ o.operationIds[d] # o.runs[r].op

\* lintDocument after `await this.runner(...)`
HandleResultOps(o, r, res) ==
  LET d == o.runs[r].doc
      o1 == IF MapHas(o.abortControllers, d) /\ o.abortControllers[d] = r
            THEN [o EXCEPT !.abortControllers = MapDelete(@, d)] ELSE o
      diags == toDiagnostics(res.errors)
  IN IF IsStaleOp(o1, r) THEN o1
     ELSE IF o1.disposed THEN o1
     ELSE IF res.executionError # ""
     THEN [o1 EXCEPT !.statusBar =
             IF res.executionError = "not found" THEN "notInstalled"
             ELSE IF isActiveDocumentOps(o1, d) THEN "idle" ELSE @]
     ELSE [o1 EXCEPT
             !.diagnostics = MapSet(@, d, diags),
             !.statusBar = IF isActiveDocumentOps(o1, d)
                           THEN IF Len(diags) > 0 THEN "errors" ELSE "idle"
                           ELSE @]

\* updateStatusBarForEditor(editor)
StatusForOps(o, e) ==
  IF e = None \/ ~isWorkflowFile(TextDocument(e)) THEN "hidden"
  ELSE IF MapHas(o.diagnostics, e) /\ Len(o.diagnostics[e]) > 0 THEN "errors"
  ELSE "idle"

\* onDidOpenTextDocument
OpsOpen(d) ==
  /\ ~ops.disposed
  /\ d \notin ops.open
  /\ ops.enable => Len(ops.runs) < MaxOpRuns
  /\ ops' = lintDocumentOps([ops EXCEPT !.open = @ \cup {d}], d)
  /\ UNCHANGED <<linterVars, proc, eval, deb>>

\* onDidSaveTextDocument
OpsSave(d) ==
  /\ ~ops.disposed
  /\ d \in ops.open
  /\ ops.enable => Len(ops.runs) < MaxOpRuns
  /\ ops' = lintDocumentOps(ops, d)
  /\ UNCHANGED <<linterVars, proc, eval, deb>>

\* onDidCloseTextDocument.  (The editor closes a document only after its
\* editor has gone, so the closed document is not the active one.)
OpsClose(d) ==
  /\ ~ops.disposed
  /\ d \in ops.open
  /\ d # ops.active
  /\ LET o1 == [ops EXCEPT
                  !.open = @ \ {d},
                  !.diagnostics = MapDelete(@, d),
                  !.operationIds = CloseOperationIds(@, d),
                  !.runs = [r \in DOMAIN @ |->
                              IF @[r].doc = d /\ @[r].st = "awaitRunner"
                              THEN [@[r] EXCEPT !.closed = TRUE] ELSE @[r]]]
     IN ops' = cleanupDocumentOps(o1, d)
  /\ UNCHANGED <<linterVars, proc, eval, deb>>

\* The runner's promise of run r resolves with res and lintDocument goes on.
OpsResume(r, res) ==
  /\ ops.runs[r].st = "awaitRunner"
  /\ ops' = [HandleResultOps(ops, r, res) EXCEPT !.runs[r].st = "done"]
  /\ UNCHANGED <<linterVars, proc, eval, deb>>

\* onDidChangeConfiguration (affecting "actionlint")
OpsChangeConfiguration(e) ==
  /\ ~ops.disposed
  /\ e # ops.enable
  /\ e => Len(ops.runs) + Cardinality(ops.open) <= MaxOpRuns
  /\ ops' = lintOpenDocumentsOps([ops EXCEPT !.enable = e], 1)
  /\ UNCHANGED <<linterVars, proc, eval, deb>>

\* onDidChangeActiveTextEditor
OpsChangeActiveTextEditor(e) ==
  /\ ~ops.disposed
  /\ e \in ops.open \cup {None}
  /\ e # ops.active
  /\ ops' = [ops EXCEPT !.active = e, !.statusBar = StatusForOps(ops, e)]
  /\ UNCHANGED <<linterVars, proc, eval, deb>>

\* dispose()
OpsDispose ==
  /\ ~ops.disposed
  /\ ops' = [ops EXCEPT
               !.disposed = TRUE,
               !.aborted = @ \cup {ops.abortControllers[d] :
                                     d \in DOMAIN ops.abortControllers},
               !.abortControllers = EmptyMap,
               !.operationIds = EmptyMap,
               !.diagnostics = EmptyMap]
  /\ UNCHANGED <<linterVars, proc, eval, deb>>

\* ------------------------------------------------------------ Init
Blank ==
  [runs |-> <<>>, tasks |-> EmptyMap, current |-> EmptyMap, aborted |-> {},
   diagnostics |-> EmptyMap, statusBar |-> "idle", cancelled |-> {}]

\* The state when the constructor returns: listeners registered, a lint
\* started for every open document.
Init ==
  /\ config \in Configs
  /\ openDocs \in SUBSET Docs
  /\ activeDoc \in openDocs \cup {None}
  /\ LET s == lintOpenDocuments(Blank, openDocs, config)
     IN /\ runs = s.runs
        /\ tasks = s.tasks
        /\ current = s.current
        /\ aborted = s.aborted
        /\ diagnostics = s.diagnostics
        /\ statusBar = s.statusBar
        /\ cancelled = s.cancelled
  /\ listeners = PermanentListeners \cup TriggerListeners(config)
  /\ debouncedLints = {}
  /\ timers = {}
  /\ disposed = FALSE
  /\ notInstalled = FALSE
  /\ unexpectedOutput = FALSE
  /\ notifications = [error |-> 0, warning |-> 0]
  /\ closedRuns = {}
  /\ proc = NoCall
  /\ eval = NoEval
  /\ deb = NoDebounce
  /\ ops = NoOps

\* ------------------------------------------------------------ actions
\* onDidOpenTextDocument: lintDocument(doc)
OnDidOpenTextDocument(d) ==
  /\ UNCHANGED <<proc, eval, deb, ops>>
  /\ MicrotasksDrained
  /\ d \notin openDocs
  /\ "open" \in listeners
  /\ CanStart(config, 1)
  /\ openDocs' = openDocs \cup {d}
  /\ Commit(lintDocumentSync(LinterState, d, config))
  /\ UNCHANGED <<debouncedLints, timers, disposed, flagVars, notifications,
                 listeners, config, activeDoc, closedRuns>>

\* onDidSaveTextDocument: lintDocument(doc)
OnDidSaveTextDocument(d) ==
  /\ UNCHANGED <<proc, eval, deb, ops>>
  /\ MicrotasksDrained
  /\ d \in openDocs
  /\ "save" \in listeners
  /\ CanStart(config, 1)
  /\ Commit(lintDocumentSync(LinterState, d, config))
  /\ UNCHANGED <<debouncedLints, timers, disposed, flagVars, notifications,
                 listeners, envVars, closedRuns>>

\* A direct call of the public lintDocument(doc).
LintDocumentCall(d) ==
  /\ UNCHANGED <<proc, eval, deb, ops>>
  /\ MicrotasksDrained
  /\ d \in openDocs
  /\ disposed => config.enable
  /\ CanStart(config, 1)
  /\ Commit(lintDocumentSync(LinterState, d, config))
  /\ UNCHANGED <<debouncedLints, timers, disposed, flagVars, notifications,
                 listeners, envVars, closedRuns>>

\* Variant: one timer for all documents; arming it drops the pending one.
DebouncedCallShared(ts, d) == {d}
\* debounce(): the debounced function called; (re)arms the timer.
DebouncedCall(ts, d) == ts \cup {d}
\* debounced.cancel()
DebouncedCancel(ts, d) == ts \ {d}

\* onDidChangeTextDocument (registered for onType only)
OnDidChangeTextDocument(d) ==
  /\ UNCHANGED <<proc, eval, deb, ops>>
  /\ MicrotasksDrained
  /\ d \in openDocs
  /\ "change" \in listeners
  /\ debouncedLints' = debouncedLints \cup {d}
  /\ timers' = DebouncedCall(timers, d)
  /\ UNCHANGED <<runs, tasks, current, aborted, diagnostics, disposed,
                 flagVars, statusBar, notifications, listeners, envVars,
                 histVars>>

\* The debounce timer expires: timer = undefined; lintDocument(doc).
TimerFire(d) ==
  /\ UNCHANGED <<proc, eval, deb, ops>>
  /\ MicrotasksDrained
  /\ d \in timers
  /\ disposed => config.enable
  /\ CanStart(config, 1)
  /\ timers' = timers \ {d}
  /\ Commit(lintDocumentSync(LinterState, d, config))
  /\ UNCHANGED <<debouncedLints, disposed, flagVars, notifications,
                 listeners, envVars, closedRuns>>

\* Variant: the debounce entry is evicted without cancelling its timer.
cleanupDebounceNoCancel(ts, d) == ts

\* cleanupDocument(key), debounce part
cleanupDebounce(ts, d) ==
  IF d \in debouncedLints THEN DebouncedCancel(ts, d) ELSE ts

InFlight(d) == {r \in RunIds : runs[r].doc = d /\ Live(LinterState, r)}

\* onDidCloseTextDocument: diagnostics.delete(uri); cleanupDocument(key).
\* (The editor closes a document only after its editor has gone, so the
\* closed document is not the active one.)
OnDidCloseTextDocument(d) ==
  /\ UNCHANGED <<proc, eval, deb, ops>>
  /\ MicrotasksDrained
  /\ d \in openDocs
  /\ d # activeDoc
  /\ "close" \in listeners
  /\ openDocs' = openDocs \ {d}
  /\ Commit(cleanupTask(
         [LinterState EXCEPT !.diagnostics = MapDelete(@, d)], d))
  /\ timers' = cleanupDebounce(timers, d)
  /\ debouncedLints' = debouncedLints \ {d}
  /\ closedRuns' = closedRuns \cup InFlight(d)
  /\ UNCHANGED <<disposed, flagVars, notifications, listeners, config,
                 activeDoc>>

\* disposeTriggerListeners(), debounce part: cancel every fn in the map.
RECURSIVE cancelTimers(_, _)
cancelTimers(ts, ds) ==
  IF ds = {} THEN ts
  ELSE LET d == CHOOSE x \in ds : TRUE
       IN cancelTimers(DebouncedCancel(ts, d), ds \ {d})

\* Variant: the handler does not call disposeTriggerListeners().
OnDidChangeConfigurationKeepTimers(c) ==
  /\ UNCHANGED <<proc, eval, deb, ops>>
  /\ MicrotasksDrained
  /\ c # config
  /\ "config" \in listeners
  /\ CanStart(c, Cardinality(openDocs))
  /\ config' = c
  /\ timers' = timers
  /\ debouncedLints' = debouncedLints
  /\ listeners' = listeners \cup TriggerListeners(c)
  /\ Commit(lintOpenDocuments(LinterState, openDocs, c))
  /\ UNCHANGED <<disposed, flagVars, notifications, openDocs, activeDoc,
                 closedRuns>>

\* onDidChangeConfiguration (affecting "actionlint")
OnDidChangeConfiguration(c) ==
  /\ UNCHANGED <<proc, eval, deb, ops>>
  /\ MicrotasksDrained
  /\ c # config
  /\ "config" \in listeners
  /\ CanStart(c, Cardinality(openDocs))
  /\ config' = c
  /\ timers' = cancelTimers(timers, debouncedLints)
  /\ debouncedLints' = {}
  /\ listeners' = PermanentListeners \cup TriggerListeners(c)
  /\ Commit(lintOpenDocuments(LinterState, openDocs, c))
  /\ UNCHANGED <<disposed, flagVars, notifications, openDocs, activeDoc,
                 closedRuns>>

\* Variant: switching the editor also lints the document switched to.
OnDidChangeActiveTextEditorRelint(e) ==
  /\ UNCHANGED <<proc, eval, deb, ops>>
  /\ MicrotasksDrained
  /\ e \in openDocs \cup {None}
  /\ e # activeDoc
  /\ "editor" \in listeners
  /\ activeDoc' = e
  /\ IF e # None /\ config.enable /\ Len(runs) < MaxRuns
     THEN Commit(lintDocumentSync(
            [LinterState EXCEPT !.statusBar = StatusFor(e)], e, config))
     ELSE /\ statusBar' = StatusFor(e)
          /\ UNCHANGED <<runs, tasks, current, aborted, diagnostics,
                         cancelled>>
  /\ UNCHANGED <<debouncedLints, timers, disposed, flagVars, notifications,
                 listeners, config, openDocs, closedRuns>>

\* onDidChangeActiveTextEditor: updateStatusBarForEditor(editor)
OnDidChangeActiveTextEditor(e) ==
  /\ UNCHANGED <<proc, eval, deb, ops>>
  /\ MicrotasksDrained
  /\ e \in openDocs \cup {None}
  /\ e # activeDoc
  /\ "editor" \in listeners
  /\ activeDoc' = e
  /\ statusBar' = StatusFor(e)
  /\ UNCHANGED <<runs, tasks, current, aborted, diagnostics, debouncedLints,
                 timers, disposed, flagVars, notifications, listeners, config,
                 openDocs, histVars>>

\* Variant: occupancy of the slot is tested, not the identity of the entry.
IsCurrentOccupied(t, e) == current[t] # 0

\* `if (this.current !== entry)`
IsCurrent(t, e) == current[t] = e

\* The runner's promise resolves with res and CancellableTask.run continues
\* after `await fn(signal)`.  (The resolution itself changes nothing the
\* program can observe before this continuation runs, so the two are one
\* step.)  A stale run returns undefined: the runner's result is dropped.
RunResume(r, res) ==
  /\ UNCHANGED <<proc, eval, deb, ops>>
  /\ MicrotasksDrained
  /\ runs[r].st = "awaitRunner"
  /\ LET t == runs[r].task
     IN IF ~IsCurrent(t, r)
        THEN /\ runs' = [runs EXCEPT ![r].st = "returned",
                                     ![r].ret = "undefined"]
             /\ current' = current
        ELSE /\ runs' = [runs EXCEPT ![r].st = "returned",
                                     ![r].result = res,
                                     ![r].ret = "result"]
             /\ current' = [current EXCEPT ![t] = 0]
  /\ UNCHANGED <<tasks, aborted, diagnostics, debouncedLints, timers,
                 disposed, flagVars, statusBar, notifications, listeners,
                 envVars, histVars>>

\* The runner's promise rejects.  `await fn(ctrl.signal)` throws inside
\* CancellableTask.run, which rejects in turn without touching `current`;
\* `await task.run(...)` throws inside lintDocument, which has no handler:
\* its promise rejects and none of its remaining statements runs.
RunReject(r) ==
  /\ UNCHANGED <<proc, eval, deb, ops>>
  /\ MicrotasksDrained
  /\ runs[r].st = "awaitRunner"
  /\ runs' = [runs EXCEPT ![r].st = "rejected"]
  /\ cancelled' = cancelled \ {r}
  /\ closedRuns' = closedRuns \ {r}
  /\ aborted' = aborted \ {r}
  /\ UNCHANGED <<tasks, current, diagnostics, debouncedLints, timers,
                 disposed, flagVars, statusBar, notifications, listeners,
                 envVars>>

\* lintDocument after `await task.run(...)`.
LintResume(r) ==
  /\ UNCHANGED <<proc, eval, deb, ops>>
  /\ runs[r].st = "returned"
  /\ runs' = [runs EXCEPT ![r].st = "done", ![r].result = NoResult,
                           ![r].ret = "pending"]
  /\ CommitHandler(HandleResult(HandlerState, r))
  /\ cancelled' = cancelled \ {r}
  /\ closedRuns' = closedRuns \ {r}
  /\ aborted' = aborted \ {r}
  /\ UNCHANGED <<tasks, current, debouncedLints, timers, disposed,
                 listeners, envVars>>

\* Variant: dispose() leaves the debounce timers pending.
DisposeKeepTimers ==
  /\ UNCHANGED <<proc, eval, deb, ops>>
  /\ MicrotasksDrained
  /\ disposed' = TRUE
  /\ timers' = timers
  /\ debouncedLints' = {}
  /\ listeners' = {}
  /\ Commit([cancelAll(LinterState, DOMAIN tasks) EXCEPT
               !.tasks = EmptyMap, !.diagnostics = EmptyMap])
  /\ UNCHANGED <<flagVars, notifications, envVars, closedRuns>>

\* dispose()
Dispose ==
  /\ UNCHANGED <<proc, eval, deb, ops>>
  /\ MicrotasksDrained
  /\ disposed' = TRUE
  /\ timers' = cancelTimers(timers, debouncedLints)
  /\ debouncedLints' = {}
  /\ listeners' = {}
  /\ Commit([cancelAll(LinterState, DOMAIN tasks) EXCEPT
               !.tasks = EmptyMap, !.diagnostics = EmptyMap])
  /\ UNCHANGED <<flagVars, notifications, envVars, closedRuns>>

Next ==
  \/ \E d \in Docs : OnDidOpenTextDocument(d)
  \/ \E d \in Docs : OnDidSaveTextDocument(d)
  \/ \E d \in Docs : LintDocumentCall(d)
  \/ \E d \in Docs : OnDidChangeTextDocument(d)
  \/ \E d \in Docs : TimerFire(d)
  \/ \E d \in Docs : OnDidCloseTextDocument(d)
  \/ \E r \in RunIds : \E res \in RunResults : RunResume(r, res)
  \/ \E r \in RunIds : RunReject(r)
  \/ \E r \in RunIds : LintResume(r)
  \/ \E c \in Configs : OnDidChangeConfiguration(c)
  \/ \E e \in Docs \cup {None} : OnDidChangeActiveTextEditor(e)
  \/ Dispose

Spec == Init /\ [][Next]_vars

\* The linter when every started runner call resolves (it never rejects)
\* and every queued continuation is eventually run by the event loop.  No
\* document is edited: lints are started by open, save, configuration
\* change and direct calls.
LiveNext ==
  \/ \E d \in Docs : OnDidOpenTextDocument(d)
  \/ \E d \in Docs : OnDidSaveTextDocument(d)
  \/ \E d \in Docs : LintDocumentCall(d)
  \/ \E d \in Docs : OnDidCloseTextDocument(d)
  \/ \E r \in RunIds : \E res \in RunResults : RunResume(r, res)
  \/ \E r \in RunIds : LintResume(r)
  \/ \E c \in Configs : OnDidChangeConfiguration(c)
  \/ \E e \in Docs \cup {None} : OnDidChangeActiveTextEditor(e)
  \/ Dispose

\* The runner call of run r resolves.
RunnerResolves(r) ==
  r \in RunIds /\ \E res \in RunResults : RunResume(r, res)

\* The event loop runs the continuation of run r.
Continues(r) == r \in RunIds /\ LintResume(r)

LiveSpec ==
  /\ Init
  /\ [][LiveNext]_vars
  /\ \A r \in 1..MaxRuns : WF_vars(RunnerResolves(r)) /\ WF_vars(Continues(r))

\* A single call of runActionlint, the linter at rest.
RunnerInit ==
  /\ config = [enable |-> FALSE, runTrigger |-> "onSave"]
  /\ openDocs = {}
  /\ activeDoc = None
  /\ runs = Blank.runs
  /\ tasks = Blank.tasks
  /\ current = Blank.current
  /\ aborted = Blank.aborted
  /\ diagnostics = Blank.diagnostics
  /\ statusBar = Blank.statusBar
  /\ cancelled = Blank.cancelled
  /\ listeners = {}
  /\ debouncedLints = {}
  /\ timers = {}
  /\ disposed = FALSE
  /\ notInstalled = FALSE
  /\ unexpectedOutput = FALSE
  /\ notifications = [error |-> 0, warning |-> 0]
  /\ closedRuns = {}
  /\ \E a \in BOOLEAN : proc = [NoCall EXCEPT !.phase = "called", !.aborted = a]
  /\ eval = NoEval
  /\ deb = NoDebounce
  /\ ops = NoOps

RunnerNext ==
  \/ RunnerCall
  \/ SignalAbort
  \/ \E error \in ExecErrors : \E stdout \in Stdouts : \E stderr \in Stderrs :
       ProcessExit(error, stdout, stderr)

RunnerSpec == RunnerInit /\ [][RunnerNext]_vars

\* ------------------------------------------- one CancellableTask alone
\* A task used by a caller that calls run() and cancel() in any order.
MaxTaskRuns == 3
TheTask == 1

TaskInit ==
  /\ config = [enable |-> FALSE, runTrigger |-> "onSave"]
  /\ openDocs = {}
  /\ activeDoc = None
  /\ runs = Blank.runs
  /\ tasks = Blank.tasks
  /\ current = MapSet(EmptyMap, TheTask, 0)
  /\ aborted = Blank.aborted
  /\ diagnostics = Blank.diagnostics
  /\ statusBar = Blank.statusBar
  /\ cancelled = Blank.cancelled
  /\ listeners = {}
  /\ debouncedLints = {}
  /\ timers = {}
  /\ disposed = FALSE
  /\ notInstalled = FALSE
  /\ unexpectedOutput = FALSE
  /\ notifications = [error |-> 0, warning |-> 0]
  /\ closedRuns = {}
  /\ proc = NoCall
  /\ eval = NoEval
  /\ deb = NoDebounce
  /\ ops = NoOps

\* task.run(fn), up to the await
TaskRunCall ==
  /\ Len(runs) < MaxTaskRuns
  /\ LET e == Len(runs) + 1
         s == TaskRun(LinterState, TheTask, e)
     IN Commit([s EXCEPT !.runs = Append(@,
          [doc |-> "a", task |-> TheTask, st |-> "awaitRunner",
           result |-> NoResult, ret |-> "pending"])])
  /\ UNCHANGED <<debouncedLints, timers, disposed, flagVars, notifications,
                 listeners, envVars, closedRuns, proc, eval, deb, ops>>

\* task.cancel()
TaskCancelCall ==
  /\ Commit(TaskCancel(LinterState, TheTask))
  /\ UNCHANGED <<debouncedLints, timers, disposed, flagVars, notifications,
                 listeners, envVars, closedRuns, proc, eval, deb, ops>>

\* fn's promise resolves with res; run() continues after the await and
\* returns.
TaskSettle(r, res) ==
  /\ runs[r].st = "awaitRunner"
  /\ IF ~IsCurrent(TheTask, r)
     THEN /\ runs' = [runs EXCEPT ![r].st = "returned",
                                  ![r].ret = "undefined"]
          /\ current' = current
     ELSE /\ runs' = [runs EXCEPT ![r].st = "returned",
                                  ![r].result = res,
                                  ![r].ret = "result"]
          /\ current' = [current EXCEPT ![TheTask] = 0]
  /\ UNCHANGED <<tasks, aborted, diagnostics, debouncedLints, timers,
                 disposed, flagVars, statusBar, notifications, listeners,
                 envVars, histVars, proc, eval, deb, ops>>

TaskNext ==
  \/ TaskRunCall
  \/ TaskCancelCall
  \/ \E r \in RunIds : \E res \in RunResults : TaskSettle(r, res)

TaskSpec == TaskInit /\ [][TaskNext]_vars

\* One evaluation of one pure function, the linter at rest.
EvalInit ==
  /\ config = [enable |-> TRUE, runTrigger |-> "onSave"]
  /\ openDocs = {}
  /\ activeDoc = None
  /\ runs = Blank.runs
  /\ tasks = Blank.tasks
  /\ current = Blank.current
  /\ aborted = Blank.aborted
  /\ diagnostics = Blank.diagnostics
  /\ statusBar = Blank.statusBar
  /\ cancelled = Blank.cancelled
  /\ listeners = {}
  /\ debouncedLints = {}
  /\ timers = {}
  /\ disposed = FALSE
  /\ notInstalled = FALSE
  /\ unexpectedOutput = FALSE
  /\ notifications = [error |-> 0, warning |-> 0]
  /\ closedRuns = {}
  /\ proc = NoCall
  /\ eval = NoEval
  /\ deb = NoDebounce
  /\ ops = NoOps

EvalNext ==
  \/ EvalBuildArgs
  \/ EvalGetConfig
  \/ EvalToRange
  \/ EvalToSeverity
  \/ EvalLintDocument

EvalSpec == EvalInit /\ [][EvalNext]_vars

\* One debounced function, called and cancelled in any order as time
\* passes, the linter at rest.
DebounceInit == EvalInit

DebounceNext ==
  \/ \E args \in DebounceArgs : DebounceCall(args)
  \/ DebounceCancel
  \/ DebounceTick
  \/ DebounceFire

DebounceSpec == DebounceInit /\ [][DebounceNext]_vars

\* The linter with operation ids when its constructor returns: a lint
\* started for every open document.
OpsInit ==
  /\ config = [enable |-> TRUE, runTrigger |-> "onSave"]
  /\ openDocs = {}
  /\ activeDoc = None
  /\ runs = Blank.runs
  /\ tasks = Blank.tasks
  /\ current = Blank.current
  /\ aborted = Blank.aborted
  /\ diagnostics = Blank.diagnostics
  /\ statusBar = Blank.statusBar
  /\ cancelled = Blank.cancelled
  /\ listeners = {}
  /\ debouncedLints = {}
  /\ timers = {}
  /\ disposed = FALSE
  /\ notInstalled = FALSE
  /\ unexpectedOutput = FALSE
  /\ notifications = [error |-> 0, warning |-> 0]
  /\ closedRuns = {}
  /\ proc = NoCall
  /\ eval = NoEval
  /\ deb = NoDebounce
  /\ \E e \in BOOLEAN, open \in SUBSET Docs :
       \E active \in open \cup {None} :
         ops = lintOpenDocumentsOps(
                 [NoOps EXCEPT !.enable = e, !.open = open,
                               !.active = active], 1)

OpsNext ==
  \/ \E d \in Docs : OpsOpen(d)
  \/ \E d \in Docs : OpsSave(d)
  \/ \E d \in Docs : OpsClose(d)
  \/ \E r \in OpRunIds : \E res \in RunResults : OpsResume(r, res)
  \/ \E e \in BOOLEAN : OpsChangeConfiguration(e)
  \/ \E e \in Docs \cup {None} : OpsChangeActiveTextEditor(e)
  \/ OpsDispose

OpsSpec == OpsInit /\ [][OpsNext]_vars


\* ------------------------------------------------------------ properties
\* The step is lintDocument's continuation for run r.
Handled(r) == runs[r].st = "returned" /\ runs'[r].st = "done"
\* The step stores a new value in the entry of document d.
Wrote(d) ==
  /\ MapHas(diagnostics', d)
  /\ ~MapHas(diagnostics, d) \/ diagnostics'[d] # diagnostics[d]
\* Runs started by the step.
NewRuns == (Len(runs) + 1)..Len(runs')
\* The step handles the close of document d.
Closed(d) == d \in openDocs /\ d \notin openDocs'
SameTask(p, q) == runs[p].task = runs[q].task
Pending(r) == runs[r].st = "awaitRunner"
Returned(r) == runs[r].st = "returned"

\* C1: a document's entry in the diagnostics store is written only by the
\* continuation of the run started last for that document; the result of an
\* earlier overlapping run is never written, whatever the completion order.
C1_OnlyLatestRunWrites ==
  [][\A d \in Docs : Wrote(d) =>
       \E r \in RunIds : Handled(r) /\ runs[r].doc = d /\ r = LatestRun(d)]_vars

\* Two overlapping runs of one document completing in reverse order: the
\* second completed first and its finding is stored, the first completes now
\* as stale.
C1_Witness ==
  \E p, q \in RunIds :
    /\ p < q /\ SameTask(p, q)
    /\ Returned(p) /\ runs[p].ret = "undefined"
    /\ runs[q].st = "done"
    /\ ~disposed
    /\ runs[q].doc \in openDocs
    /\ MapHas(diagnostics, runs[q].doc)
    /\ Len(diagnostics[runs[q].doc]) = 1

\* C2: once dispose() has run, no step stores a value in the diagnostics
\* store, for any document.
C2_NoWriteAfterDispose ==
  [][disposed => \A d \in Docs : ~Wrote(d)]_vars

\* A run that dispose() cancelled completes after dispose().
C2_Witness ==
  /\ disposed
  /\ \E r \in RunIds : Returned(r) /\ r \in cancelled

\* C3: when run() resumes, a run behind which a later run was started on the
\* same task resolves to undefined, and the run started last resolves to its
\* own result (unless cancel() was called on it).
C3_LastRunResolves ==
  \A r \in RunIds : Returned(r) =>
    LET superseded == \E q \in RunIds : q > r /\ SameTask(q, r)
    IN /\ superseded => runs[r].ret = "undefined"
       /\ (~superseded /\ r \notin cancelled) => runs[r].ret = "result"

\* Two runs on one task, both started before either completed; the second
\* resolves to its result while the first is still running.
C3_Witness ==
  \E p, q \in RunIds :
    /\ p < q /\ SameTask(p, q)
    /\ Pending(p)
    /\ Returned(q) /\ runs[q].ret = "result"
    /\ Len(runs[q].result.errors) = 1

\* C4: a run() started while another run occupies the slot aborts that run's
\* signal, becomes the occupant with a signal that is not aborted, and has
\* its operation invoked while the previous operation is still pending.
C4_RunSupersedes ==
  [][\A q \in NewRuns :
       LET t == runs'[q].task
           p == IF MapHas(current, t) THEN current[t] ELSE 0
       IN (p # 0 /\ Pending(p)) =>
            /\ p \in aborted'
            /\ current'[t] = q
            /\ q \notin aborted'
            /\ runs'[q].st = "awaitRunner"
            /\ runs'[p] = runs[p]]_vars

\* The second run occupies the slot, the first is aborted and still pending.
C4_Witness ==
  \E p, q \in RunIds :
    /\ p < q /\ SameTask(p, q)
    /\ Pending(p) /\ p \in aborted
    /\ Pending(q) /\ q \notin aborted
    /\ current[runs[q].task] = q

\* C5: a run that was in flight when cancel() was called has its signal
\* aborted, its slot is empty, and it resolves to undefined.
C5_CancelledResolvesStale ==
  \A r \in cancelled :
    /\ r \in aborted
    /\ current[runs[r].task] = 0
    /\ Returned(r) => runs[r].ret = "undefined"

\* A cancelled run whose operation completed afterwards.
C5_Witness ==
  \E r \in cancelled : Returned(r) /\ runs[r].ret = "undefined"

\* C6: applying the result of a run of one document leaves the entry of
\* every other document in the diagnostics store as it was.
C6_OtherEntriesUntouched ==
  [][\A r \in RunIds : Handled(r) =>
       \A d \in Docs \ {runs[r].doc} :
         /\ MapHas(diagnostics', d) <=> MapHas(diagnostics, d)
         /\ MapHas(diagnostics, d) => diagnostics'[d] = diagnostics[d]]_vars

\* A clean result is about to be applied for one document while the other
\* document has a stored finding.
C6_Witness ==
  \E r \in RunIds :
    /\ Returned(r) /\ runs[r].ret = "result" /\ ~disposed
    /\ runs[r].result = SuccessResult(0)
    /\ \E d \in Docs \ {runs[r].doc} :
         MapHas(diagnostics, d) /\ Len(diagnostics[d]) = 1

\* The step is dispose(), called for the first time or again.
Disposing ==
  \/ disposed' /\ ~disposed
  \/ disposed /\ tasks # EmptyMap /\ tasks' = EmptyMap

\* The step that aborts the signal of run r concerns r's own document (a new
\* run for it, or its close) or is dispose().
OwnCause(r) ==
  \/ \E q \in NewRuns : runs'[q].doc = runs[r].doc
  \/ Closed(runs[r].doc)
  \/ Disposing

IsSuccess(res) == res.executionError = "" /\ ~res.warning

\* C7: a run's signal is aborted only by a step about its own document (or
\* dispose()); a run resolves stale only if a later run of its own document
\* was started or its own slot was cancelled; and a run that is not stale is
\* applied to its own document.
C7_SlotsIndependent ==
  /\ [](\A r \in RunIds : (Returned(r) /\ runs[r].ret = "undefined") =>
          \/ \E q \in RunIds : q > r /\ runs[q].doc = runs[r].doc
          \/ r \in cancelled)
  /\ [][/\ \A r \in RunIds : (r \notin aborted /\ r \in aborted') => OwnCause(r)
        /\ \A r \in RunIds :
             (Handled(r) /\ runs[r].ret = "result" /\ ~disposed
                /\ IsSuccess(runs[r].result)) =>
               /\ MapHas(diagnostics', runs[r].doc)
               /\ diagnostics'[runs[r].doc] =
                    toDiagnostics(runs[r].result.errors)]_vars

\* Two documents linted together: the run started second was applied first,
\* the run started first is now applied too, its signal never aborted.
C7_Witness ==
  /\ Len(runs) = 2
  /\ runs[1].doc # runs[2].doc
  /\ runs[2].st = "done"
  /\ MapHas(diagnostics, runs[2].doc) /\ Len(diagnostics[runs[2].doc]) = 1
  /\ Returned(1) /\ runs[1].ret = "result" /\ 1 \notin aborted
  /\ IsSuccess(runs[1].result)
  /\ ~disposed

\* C8: the step that handles the close of a document removes its diagnostics
\* entry, leaves every pending run of it aborted, cancels its debounce timer
\* and evicts its task and debounce entries; and the continuation of a run
\* that was pending at the close leaves the diagnostics store unchanged.
C8_CloseCleansUp ==
  [][/\ \A d \in Docs : Closed(d) =>
          /\ ~MapHas(diagnostics', d)
          /\ \A r \in InFlight(d) : r \in aborted'
          /\ d \notin timers'
          /\ ~MapHas(tasks', d)
          /\ d \notin debouncedLints'
     /\ \A r \in RunIds : (Handled(r) /\ r \in closedRuns) =>
          diagnostics' = diagnostics]_vars

\* A run that was pending when its document closed completes afterwards.
C8_Witness ==
  \E r \in closedRuns :
    /\ Returned(r)
    /\ runs[r].doc \notin openDocs
    /\ ~disposed

\* C9: the continuation of a stale run changes neither the diagnostics store
\* nor the warning flags, the status indicator or the notifications.
C9_StaleChangesNothing ==
  [][\A r \in RunIds : (Handled(r) /\ runs[r].ret = "undefined") =>
       UNCHANGED <<diagnostics, notInstalled, unexpectedOutput, statusBar,
                   notifications>>]_vars

\* A superseded run completes while the indicator shows running.
C9_Witness ==
  \E r \in RunIds :
    /\ Returned(r) /\ runs[r].ret = "undefined"
    /\ \E q \in RunIds : q > r /\ SameTask(q, r)
    /\ statusBar = "running"

\* C10: a handled binary-not-found result sets the not-installed flag and
\* shows one error message when the flag was not set, none when it was.
C10_NotFoundNotifiesOnce ==
  [][\A r \in RunIds :
       (Handled(r) /\ runs[r].ret = "result" /\ ~disposed
          /\ runs[r].result.executionError = "not found") =>
         /\ notInstalled'
         /\ notifications'.warning = notifications.warning
         /\ notifications'.error =
              IF notInstalled THEN notifications.error
              ELSE notifications.error + 1]_vars

\* A second not-found result, from the other document, arrives while the
\* flag set by the first is still set.
C10_Witness ==
  /\ Len(runs) = 2
  /\ runs[1].doc # runs[2].doc
  /\ runs[1].st = "done"
  /\ notInstalled /\ notifications.error = 1
  /\ Returned(2) /\ runs[2].ret = "result" /\ ~disposed
  /\ runs[2].result.executionError = "not found"

\* The step applies the non-stale result of run r (the linter not disposed).
Applied(r) == Handled(r) /\ runs[r].ret = "result" /\ ~disposed
\* Run r has returned a result that its continuation will apply.
ToApply(r) == Returned(r) /\ runs[r].ret = "result" /\ ~disposed
IsWarning(res) == res.executionError = "" /\ res.warning
IsOtherError(res) == res.executionError = "other"

\* C11: applying a Warning result stores the empty list for its document,
\* sets the unexpected-output flag, clears the not-installed flag and puts
\* the status indicator in unexpectedOutput, whichever document is active.
C11_WarningHandled ==
  [][\A r \in RunIds : (Applied(r) /\ IsWarning(runs[r].result)) =>
       /\ MapHas(diagnostics', runs[r].doc)
       /\ diagnostics'[runs[r].doc] = <<>>
       /\ unexpectedOutput'
       /\ ~notInstalled'
       /\ statusBar' = "unexpectedOutput"]_vars

\* A Warning result is about to be applied for a document that has a stored
\* finding and is not the active one.
C11_Witness ==
  \E r \in RunIds :
    /\ ToApply(r) /\ IsWarning(runs[r].result)
    /\ MapHas(diagnostics, runs[r].doc)
    /\ Len(diagnostics[runs[r].doc]) = 1
    /\ activeDoc # runs[r].doc

\* C12: applying a Warning result shows one warning message when the
\* unexpected-output flag was not set, and none when it was.
C12_WarningNotifiesOnce ==
  [][\A r \in RunIds : (Applied(r) /\ IsWarning(runs[r].result)) =>
       /\ notifications'.error = notifications.error
       /\ notifications'.warning =
            IF unexpectedOutput THEN notifications.warning
            ELSE notifications.warning + 1]_vars

\* C13: applying a Success result clears both warning flags and stores for
\* its document exactly the diagnostics of that result's findings.
C13_SuccessReplaces ==
  [][\A r \in RunIds : (Applied(r) /\ IsSuccess(runs[r].result)) =>
       /\ ~notInstalled'
       /\ ~unexpectedOutput'
       /\ MapHas(diagnostics', runs[r].doc)
       /\ diagnostics'[runs[r].doc] = toDiagnostics(runs[r].result.errors)]_vars

\* A clean result is about to be applied for a document that has a stored
\* finding.
C13_Witness ==
  \E r \in RunIds :
    /\ ToApply(r) /\ runs[r].result = SuccessResult(0)
    /\ MapHas(diagnostics, runs[r].doc)
    /\ Len(diagnostics[runs[r].doc]) = 1

\* C14: the not-installed flag and the unexpected-output flag are never both
\* set.
C14_FlagsExclusive == ~(notInstalled /\ unexpectedOutput)

\* C15: applying an execution error that is not binary-not-found shows one
\* error message, leaves both warning flags and the diagnostics store as
\* they were, and changes the status indicator only if the document is the
\* active one.
C15_OtherErrorLocal ==
  [][\A r \in RunIds : (Applied(r) /\ IsOtherError(runs[r].result)) =>
       /\ notifications'.error = notifications.error + 1
       /\ notifications'.warning = notifications.warning
       /\ UNCHANGED <<notInstalled, unexpectedOutput, diagnostics>>
       /\ statusBar' # statusBar => isActiveDocument(runs[r].doc)]_vars

\* Another execution error is about to be applied for a document that is not
\* active, while the not-installed flag is set and shown.
C15_Witness ==
  \E r \in RunIds :
    /\ ToApply(r) /\ IsOtherError(runs[r].result)
    /\ ~isActiveDocument(runs[r].doc)
    /\ notInstalled
    /\ statusBar = "notInstalled"

\* The indicator the warning flags and the active document's stored count
\* call for: a set flag first, the document's own state otherwise.
Derived(nI, uO, diags, d) ==
  IF nI \/ uO
  THEN (IF nI THEN {"notInstalled"} ELSE {})
         \cup (IF uO THEN {"unexpectedOutput"} ELSE {})
  ELSE IF MapHas(diags, d) /\ Len(diags[d]) > 0 THEN {"errors"}
  ELSE {"idle"}

\* C16: when the indicator is derived for an active document (the active
\* editor switches to it, or a result is applied for it), it shows the
\* warning flag that is set, and the document's own state (errors or idle)
\* only when none is.
C16_IndicatorPriority ==
  [][/\ (activeDoc' # activeDoc /\ activeDoc' # None) =>
          statusBar' \in Derived(notInstalled', unexpectedOutput',
                                 diagnostics', activeDoc')
     /\ \A r \in RunIds : (Applied(r) /\ isActiveDocument(runs[r].doc)) =>
          statusBar' \in Derived(notInstalled', unexpectedOutput',
                                 diagnostics', activeDoc')]_vars

\* C17: a change of the active editor starts no run and leaves the
\* diagnostics store, the task slots, the debounce timers and the warning
\* flags as they were; the status indicator becomes what
\* updateStatusBarForEditor derives.
C17_EditorChangeFrame ==
  [][activeDoc' # activeDoc =>
       /\ UNCHANGED <<runs, tasks, current, aborted, diagnostics,
                      debouncedLints, timers, notInstalled, unexpectedOutput,
                      notifications>>
       /\ statusBar' = StatusFor(activeDoc')]_vars

\* The editor has switched away from every document (the indicator is
\* hidden) while a run is in flight and a debounce timer is pending.
C17_Witness ==
  /\ activeDoc = None
  /\ statusBar = "hidden"
  /\ \E r \in RunIds : Pending(r)
  /\ timers # {}

\* C18: when the runner's promise rejects for a run, lintDocument's promise
\* still resolves, and the status indicator of an active document leaves
\* the running state for idle.
C18_RejectionRecovers ==
  [][\A r \in RunIds :
       (Pending(r) /\ runs'[r].st \notin {"awaitRunner", "returned"}) =>
         /\ runs'[r].st = "done"
         /\ (isActiveDocument(runs[r].doc) /\ statusBar = "running") =>
              statusBar' = "idle"]_vars

\* C19: a call of runActionlint whose signal is aborted when it is made
\* resolves at once, without a subprocess, to empty findings and no
\* execution error; a call whose signal is aborted when the subprocess calls
\* back resolves to the same, whatever the error and the output.
C19_CancellationIsNoError ==
  /\ [][(proc.phase = "called" /\ proc.aborted) =>
          (proc'.phase = "resolved" /\ ~proc'.spawned)]_vars
  /\ [](proc.phase = "resolved" =>
          /\ proc.abortedAtCall => ~proc.spawned
          /\ proc.aborted =>
               /\ proc.result.errors = <<>>
               /\ proc.result.executionError = ""
               /\ ~proc.result.warning)

\* The signal was aborted while the subprocess ran, and the callback came
\* with a spawn error and output.
C19_Witness ==
  /\ proc.phase = "resolved"
  /\ proc.spawned /\ proc.aborted
  /\ proc.error.present /\ proc.error.code.str = "ENOENT" /\ proc.error.killed
  /\ proc.stdout.body = "array"

\* C20: a subprocess that exits with code 1 and whose output is empty, null
\* or an empty array makes runActionlint resolve to a Warning result:
\* warning set, no findings, no execution error.
C20_ExitOneEmptyIsWarning ==
  (/\ proc.phase = "resolved" /\ ~proc.aborted
   /\ proc.error.present /\ ~proc.error.killed
   /\ proc.error.code.kind = "number" /\ proc.error.code.num = 1
   /\ Trim(proc.stdout) \in {"", "null", "[]"}) =>
     /\ proc.result.warning
     /\ proc.result.errors = <<>>
     /\ proc.result.executionError = ""

\* C21: a result that lintDocument classifies as binary-not-found (and that
\* sets the not-installed flag) comes only from a callback whose error code
\* is ENOENT.
C21_NotFoundOnlyFromEnoent ==
  (proc.phase = "resolved" /\ isNotFound(proc.result)) =>
    /\ proc.error.present
    /\ proc.error.code.kind = "string"
    /\ proc.error.code.str = "ENOENT"

\* Number of positions of args that hold the flag.
CountFlag(args, flag) == Cardinality({i \in 1..Len(args) : args[i] = flag})

\* C22: without trust the arguments do not depend on additionalArgs and
\* still hold one -ignore flag, followed by its pattern, per ignore
\* pattern; with trust the additionalArgs stand, in order, right before the
\* final "-".
C22_UntrustedDropsExtraArgs ==
  eval.fn = "buildArgs" =>
    LET n == Len(eval.out)
        extra == eval.cfg.additionalArgs
    IN /\ eval.out[n] = "-"
       /\ ~eval.isTrusted =>
            /\ \A aa \in ArgLists :
                 BuildArgs([eval.cfg EXCEPT !.additionalArgs = aa], FALSE,
                           eval.path) = eval.out
            /\ \A i \in 1..n : eval.out[i] \notin {"--color", "--verbose"}
            /\ CountFlag(eval.out, "-ignore") = Len(eval.cfg.ignoreErrors)
            /\ \A k \in 1..Len(eval.cfg.ignoreErrors) :
                 \E i \in 1..(n - 1) :
                   /\ eval.out[i] = "-ignore"
                   /\ eval.out[i + 1] = eval.cfg.ignoreErrors[k]
       /\ eval.isTrusted =>
            /\ n > Len(extra)
            /\ SubSeq(eval.out, n - Len(extra), n - 1) = extra

\* Arguments built without trust from a configuration with two extra
\* arguments and two ignore patterns.
C22_Witness ==
  /\ eval.fn = "buildArgs"
  /\ ~eval.isTrusted
  /\ Len(eval.cfg.additionalArgs) = 2
  /\ Len(eval.cfg.ignoreErrors) = 2

\* The settings with the workspace-scoped values of every restricted key
\* replaced: those of `on` set, the others unset.
WithWorkspace(settings, on) ==
  [settings EXCEPT !.keys =
     [k \in RestrictedKeys |->
        [sc \in ScopeSet |->
           IF sc \in WorkspaceScopes
           THEN (IF sc \in on THEN sc ELSE Undef)
           ELSE settings.keys[k][sc]]]]

\* C23: getConfig(false) yields for the three executables values that no
\* workspace-scoped or workspace-folder-scoped value can change, never a
\* value set in such a scope, and the empty additionalArgs; getConfig(true)
\* yields the effective values.
C23_UntrustedConfigIgnoresWorkspace ==
  eval.fn = "getConfig" =>
    /\ ~eval.isTrusted =>
         /\ \A on \in SUBSET WorkspaceScopes :
              LET other == getConfig(WithWorkspace(eval.settings, on), FALSE)
              IN \A k \in RestrictedKeys : other[k] = eval.out[k]
         /\ \A k \in RestrictedKeys : eval.out[k] \notin WorkspaceScopes
         /\ eval.out.additionalArgs = <<>>
    /\ eval.isTrusted =>
         /\ \A k \in RestrictedKeys :
              eval.out[k] = CfgGet(eval.settings.keys[k],
                                   IF k = "executable" THEN "actionlint" ELSE "")
         /\ eval.out.additionalArgs = eval.settings.additionalArgs

\* An untrusted read of settings whose executable is set in the workspace
\* and by the user, and whose additionalArgs are not empty.
C23_Witness ==
  /\ eval.fn = "getConfig"
  /\ ~eval.isTrusted
  /\ eval.settings.keys["executable"]["workspaceValue"] # Undef
  /\ eval.settings.keys["executable"]["globalValue"] # Undef
  /\ eval.settings.additionalArgs # <<>>
  /\ eval.out.executable = "globalValue"

\* C24: for every finding, whatever integers its line, column and end_column
\* are, and also when the range is the resolved position of an embedded
\* script, the range of its diagnostic lies on one line, ends at a column
\* strictly greater than its start column, and starts at a line and a column
\* that are not negative.
C24_RangeNonEmpty ==
  eval.fn = "toRange" =>
    /\ eval.out.endCol > eval.out.startCol
    /\ eval.out.endLine = eval.out.startLine
    /\ eval.out.startLine >= 0
    /\ eval.out.startCol >= 0

\* A finding with end_column below column and a non-positive column, whose
\* range is the resolved position of line 3, column 2 of a block script.
C24_Witness ==
  /\ eval.fn = "toRange"
  /\ eval.err.end_column < eval.err.column
  /\ eval.err.column <= 0
  /\ Resolves(eval.err, eval.documentText)
  /\ eval.documentText.text = BlockDoc
  /\ eval.err.line = 1
  /\ eval.err.message.line = 3
  /\ eval.err.message.col = 2
  /\ eval.out = Range(3, 3, 3, 4)

\* C25 as stated: for a finding that is not an embedded-script finding the
\* range starts at (max(0, line-1), max(0, column-1)) and ends at end_column
\* when end_column > column, otherwise at start column + 1.
C25_RangeAsStated ==
  (eval.fn = "toRange" /\ eval.err.kind \notin {"shellcheck", "pyflakes"}) =>
    /\ eval.out.startLine = Max(0, eval.err.line - 1)
    /\ eval.out.startCol = Max(0, eval.err.column - 1)
    /\ eval.out.endCol =
         IF eval.err.end_column > eval.err.column
         THEN eval.err.end_column
         ELSE eval.out.startCol + 1

\* C25, amended: for a finding that is not an embedded-script finding the
\* range starts at (max(0, line-1), max(0, column-1)) and ends at end_column
\* when end_column > column and end_column >= 1, otherwise at start
\* column + 1.
C25_RangeMapping ==
  (eval.fn = "toRange" /\ eval.err.kind \notin {"shellcheck", "pyflakes"}) =>
    /\ eval.out.startLine = Max(0, eval.err.line - 1)
    /\ eval.out.startCol = Max(0, eval.err.column - 1)
    /\ eval.out.endCol =
         IF eval.err.end_column > eval.err.column /\ eval.err.end_column >= 1
         THEN eval.err.end_column
         ELSE eval.out.startCol + 1

\* A finding with column -1 and end_column 0, whose diagnostic spans 0..1.
C25_Witness ==
  /\ eval.fn = "toRange"
  /\ eval.err.kind = "expression"
  /\ eval.err.line = 3
  /\ eval.err.column = -1
  /\ eval.err.end_column = 0
  /\ eval.out = Range(2, 0, 2, 1)

\* C26: the severity is the user's override for the finding's kind when that
\* is one of error, warning, information, hint; else, for kind shellcheck
\* only, the severity token of the message; else the entry of the kind
\* table; else Error.
C26_SeverityOrder ==
  eval.fn = "toSeverity" =>
    LET ov == eval.overrides[eval.kind]
    IN /\ ov = "error" => eval.out = "Error"
       /\ ov = "warning" => eval.out = "Warning"
       /\ ov = "information" => eval.out = "Information"
       /\ ov = "hint" => eval.out = "Hint"
       /\ ov \notin {"error", "warning", "information", "hint"} =>
            /\ (eval.kind = "shellcheck" /\ eval.message.form = "shellcheck") =>
                 /\ eval.message.sev = "error" => eval.out = "Error"
                 /\ eval.message.sev = "warning" => eval.out = "Warning"
                 /\ eval.message.sev = "info" => eval.out = "Information"
                 /\ eval.message.sev = "style" => eval.out = "Hint"
            /\ ~(eval.kind = "shellcheck" /\ eval.message.form = "shellcheck") =>
                 /\ eval.kind \in WarningKinds => eval.out = "Warning"
                 /\ eval.kind \in InformationKinds => eval.out = "Information"
                 /\ eval.kind \notin WarningKinds \cup InformationKinds =>
                      eval.out = "Error"

\* A shellcheck finding whose message says error and whose kind the user
\* set to hint.
C26_Witness ==
  /\ eval.fn = "toSeverity"
  /\ eval.kind = "shellcheck"
  /\ eval.message.form = "shellcheck"
  /\ eval.message.sev = "error"
  /\ eval.overrides["shellcheck"] = "hint"
  /\ eval.out = "Hint"

\* The conditions C29 names, on the parts of the document.
IsWorkflowDocument(document) ==
  /\ document.languageId \in {"yaml", "github-actions-workflow"}
  /\ document.scheme = "file"
  /\ Len(document.fsPath.dirs) >= 2
  /\ document.fsPath.dirs[Len(document.fsPath.dirs)] = "workflows"
  /\ document.fsPath.dirs[Len(document.fsPath.dirs) - 1]
       \in {".github", "x.github"}
  /\ document.fsPath.ext \in {"yml", "yaml"}

\* C29: a call of lintDocument starts a run of the runner only for a
\* document whose language id is yaml or github-actions-workflow, whose
\* path ends with .github/workflows/<name>.yml or .yaml, and whose scheme is
\* file; for any other document the call starts no run, creates no task
\* and leaves the diagnostics store as it was.
C29_OnlyWorkflowFilesReachRunner ==
  [][eval'.fn = "lintDocument" =>
       /\ Len(runs') > Len(runs) => IsWorkflowDocument(eval'.document)
       /\ ~IsWorkflowDocument(eval'.document) =>
            /\ runs' = runs
            /\ tasks' = tasks
            /\ diagnostics' = diagnostics]_vars

\* A run was started for a workflow file with a Windows path.
C29_Witness ==
  /\ eval.fn = "lintDocument"
  /\ eval.document.fsPath.sep = "\\"
  /\ eval.document.languageId = "github-actions-workflow"
  /\ Len(runs) = 1
  /\ runs[1].doc = EvalDoc
  /\ runs[1].st = "awaitRunner"

\* The step starts exactly one run, for document d.
LintStarted(d) ==
  /\ Len(runs') = Len(runs) + 1
  /\ runs'[Len(runs')].doc = d
  /\ runs'[Len(runs')].st = "awaitRunner"

LintDocumentCalled(d) ==
  \/ LintDocumentCall(d)
  \/ OnDidSaveTextDocument(d)
  \/ OnDidOpenTextDocument(d)
  \/ TimerFire(d)

\* C28: a call of lintDocument while linting is disabled in the
\* configuration it reads leaves the document without diagnostics, and no
\* step that ends with linting disabled (a call of lintDocument by any
\* caller, the configuration handler's calls included) starts a run or
\* creates a task.
C28_DisabledLintClears ==
  [][~config'.enable =>
       /\ Len(runs') = Len(runs)
       /\ DOMAIN tasks' \subseteq DOMAIN tasks
       /\ \A d \in Docs : ~MapHas(diagnostics', d) \/ ~LintDocumentCalled(d)
       /\ config' # config => \A d \in openDocs : ~MapHas(diagnostics', d)]_vars

\* Linting was disabled while a run of the active document was pending:
\* lintDocument has set the indicator from running to idle and started no
\* run behind the pending one; the other document's finding, stored since,
\* is kept.
C28_Witness ==
  /\ ~config.enable
  /\ ~disposed
  /\ statusBar = "idle"
  /\ \E r \in RunIds :
       /\ Pending(r)
       /\ runs[r].doc = activeDoc
       /\ current[runs[r].task] = r
       /\ ~MapHas(diagnostics, activeDoc)
       /\ \E o \in Docs \ {activeDoc} :
            MapHas(diagnostics, o) /\ Len(diagnostics[o]) = 1

\* C30: the save listener is registered under either policy and a save
\* calls lintDocument for the saved document; the change listener is
\* registered exactly under onType; under onSave no debounce timer is
\* pending, and no step arms one.
C30_TriggerPolicy ==
  /\ [](~disposed =>
          /\ "save" \in listeners
          /\ "change" \in listeners <=> config.runTrigger = "onType"
          /\ config.runTrigger = "onSave" =>
               timers = {} /\ debouncedLints = {})
  /\ [][/\ \A d \in Docs :
             \/ ~config.enable
             \/ LintStarted(d)
             \/ ~OnDidSaveTextDocument(d)
        /\ (timers' \ timers # {}) =>
             config.runTrigger = "onType" /\ runs' = runs]_vars

\* Under onSave a lint started by a later event runs behind the one started
\* when the document was opened; under onType this state has a pending timer.
C30_Witness ==
  /\ ~disposed
  /\ config = [enable |-> TRUE, runTrigger |-> "onSave"]
  /\ "change" \notin listeners
  /\ \E p, q \in RunIds :
       /\ p < q /\ SameTask(p, q)
       /\ Pending(p) /\ Pending(q)

\* C31: dispose() leaves every run in flight with an aborted signal, no
\* debounce timer pending, the task map and the debounce map empty and no
\* listener attached; from then on no timer is pending, so no debounced
\* lint fires; a second dispose() right after changes nothing.
C31_DisposeTearsDown ==
  /\ [][(disposed' /\ ~disposed) =>
          /\ \A r \in RunIds : Pending(r) => r \in aborted'
          /\ timers' = {}
          /\ debouncedLints' = {}
          /\ tasks' = EmptyMap
          /\ listeners' = {}]_vars
  /\ [](disposed =>
          /\ timers = {}
          /\ debouncedLints = {}
          /\ listeners = {}
          /\ tasks = EmptyMap => ~ENABLED (Dispose /\ vars' # vars))

\* dispose() was called with the runs of two documents in flight.
C31_Witness ==
  /\ disposed
  /\ tasks = EmptyMap
  /\ \E p, q \in RunIds :
       /\ runs[p].doc # runs[q].doc
       /\ Pending(p) /\ p \in cancelled /\ p \in aborted
       /\ Pending(q) /\ q \in cancelled /\ q \in aborted

\* C32: cancel() on a task with no run in flight changes nothing; and
\* whatever cancel() calls came before, the run that occupies the slot has
\* a signal that is not aborted, and a run that returns without a later
\* run() or a cancel() having come in between returns its operation's
\* result.
C32_CancelIdleAndReuse ==
  /\ current[TheTask] = 0 => ~ENABLED (TaskCancelCall /\ vars' # vars)
  /\ \A r \in RunIds :
       /\ current[TheTask] = r => r \notin aborted
       /\ (Returned(r) /\ r \notin cancelled
             /\ ~\E q \in RunIds : q > r) =>
            /\ runs[r].ret = "result"
            /\ runs[r].result \in RunResults

\* A run was cancelled and is still in flight; the run started after the
\* cancel() has returned its operation's result, a finding.
C32_Witness ==
  \E p, q \in RunIds :
    /\ p < q
    /\ Pending(p) /\ p \in cancelled
    /\ Returned(q) /\ runs[q].ret = "result"
    /\ runs[q].result = SuccessResult(1)
    /\ current[TheTask] = 0
    /\ Len(runs) = 2

\* C33: when the output does not parse as JSON, the executionError has
\* fewer than ErrorLengthLimit characters whatever the size of the output,
\* and carries a truncation marker when the output was longer than that.
ErrorLengthLimit == 700
C33_ParseErrorBounded ==
  (proc.phase = "resolved" /\ proc.result.executionError = "failed to parse") =>
    /\ ParseErrorLength(proc.result) < ErrorLengthLimit
    /\ TextLength(proc.stdout.body) > ErrorLengthLimit =>
         IncludesTruncationMarker(proc.result)

\* C34: a debounced function has at most one timer pending; a timer is
\* pending exactly when a call was made since the last invocation or
\* cancel(); an invocation happens DelayMs after the last call, with the
\* last call's arguments, once for all the calls since the invocation or
\* cancel() before; cancel() leaves no timer pending, and a call after it
\* sets one.
C34_DebounceContract ==
  /\ [](/\ Cardinality(deb.pending) <= 1
        /\ deb.callsSince > 0 <=> deb.pending # {}
        /\ deb.pending # {} =>
             \E t \in deb.pending :
               /\ t.id = deb.timer
               /\ t.args = deb.lastArgs
               /\ t.left = DelayMs - deb.age)
  /\ [][/\ Len(deb'.invoked) > Len(deb.invoked) =>
             /\ deb'.invoked = Append(deb.invoked, deb.lastArgs)
             /\ deb.age = DelayMs
             /\ deb.callsSince >= 1
             /\ deb'.pending = {}
        /\ (deb.callsSince > 0 /\ deb'.callsSince = 0
              /\ deb'.invoked = deb.invoked) => deb'.pending = {}]_vars

\* Three calls in a burst, the last with other arguments than the first:
\* one invocation, with the last call's arguments.
C34_Witness ==
  /\ deb.nextId = 4
  /\ deb.invoked = <<"b">>
  /\ deb.lastArgs = "b"
  /\ deb.pending = {}

\* The range of the finding itself, on the line of the run: keyword.
KeywordRange(err) ==
  Range(Max(0, err.line - 1), StartCol(err), Max(0, err.line - 1), EndCol(err))

\* The start of the range is a character of a line of the text.
InsideDocument(range, lines) ==
  /\ range.startLine < Len(lines)
  /\ range.startCol < Len(lines[range.startLine + 1])

\* C35: for a finding whose script position is looked up, the diagnostic's
\* range is either a position inside the document or, when the resolved
\* position would lie outside it (run line out of range, no run: keyword or
\* no value, target line past the last line, a script line other than 1 of
\* an inline scalar, a column not inside the target line), the finding's
\* own keyword-line range.
C35_UnresolvableKeepsKeywordRange ==
  (eval.fn = "toRange" /\ Resolves(eval.err, eval.documentText)) =>
    \/ eval.out = KeywordRange(eval.err)
    \/ InsideDocument(eval.out, Split(eval.documentText.text))

\* C36: the step that handles a configuration change leaves no debounce
\* timer pending and the debounce map empty, attaches the save listener and,
\* exactly under onType, the change listener, and calls lintDocument for
\* every open document: with linting enabled one run per open document
\* starts, with linting disabled each loses its diagnostics; so after a
\* change to onSave no timer is left to fire and no edit is listened to.
C36_ConfigChangeRebuilds ==
  [][config' # config =>
       /\ timers' = {}
       /\ debouncedLints' = {}
       /\ "save" \in listeners'
       /\ "change" \in listeners' <=> config'.runTrigger = "onType"
       /\ listeners' \ {"save", "change"} = listeners \ {"save", "change"}
       /\ config'.enable =>
            /\ Len(runs') = Len(runs) + Cardinality(openDocs)
            /\ \A d \in openDocs : \E q \in NewRuns :
                 runs'[q].doc = d /\ runs'[q].st = "awaitRunner"
       /\ ~config'.enable =>
            /\ runs' = runs
            /\ \A d \in openDocs : ~MapHas(diagnostics', d)]_vars

\* Linting was switched off, under onSave, while the runs of two open
\* documents were in flight: no run was added, the indicator went from
\* running to idle, no timer is pending and edits are not listened to.
C36_Witness ==
  /\ config = [enable |-> FALSE, runTrigger |-> "onSave"]
  /\ ~disposed
  /\ openDocs = Docs
  /\ activeDoc # None
  /\ Len(runs) = 2
  /\ Pending(1) /\ Pending(2)
  /\ runs[1].doc # runs[2].doc
  /\ timers = {} /\ debouncedLints = {}
  /\ "change" \notin listeners
  /\ statusBar = "idle"

\* C37: a run whose signal is aborted does not occupy the slot of its task;
\* so its run() returns undefined, and the step that continues lintDocument
\* for it leaves the diagnostics store and both warning flags as they are.
C37_AbortedNeverApplied ==
  /\ [](\A r \in aborted :
          /\ current[runs[r].task] # r
          /\ Returned(r) => runs[r].ret = "undefined")
  /\ [][\A r \in aborted : Handled(r) =>
          /\ diagnostics' = diagnostics
          /\ notInstalled' = notInstalled
          /\ unexpectedOutput' = unexpectedOutput]_vars

\* An aborted run has returned and is about to continue lintDocument while
\* its document has a finding stored by the run that superseded it.
C37_Witness ==
  \E p, q \in RunIds :
    /\ p < q /\ SameTask(p, q)
    /\ p \in aborted
    /\ Returned(p)
    /\ runs[q].st = "done"
    /\ ~disposed
    /\ MapHas(diagnostics, runs[p].doc)
    /\ Len(diagnostics[runs[p].doc]) = 1

\* C38: while linting stays disabled, a document whose diagnostics entry is
\* empty (lintDocument removed it when linting was disabled) gets no entry,
\* also when a run started for it before completes with findings.
C38_DisabledStaysEmpty ==
  [][\A d \in Docs :
       (~config.enable /\ ~config'.enable /\ ~MapHas(diagnostics, d)) =>
          ~MapHas(diagnostics', d)]_vars

OpsHandled(r) == ops.runs[r].st = "awaitRunner" /\ ops'.runs[r].st = "done"

\* C40: in the linter with operation ids, the result of a run started
\* before its document was closed is never written to the diagnostics
\* store, also when the document was reopened and a new run started for it
\* before the old run completes.
C40_ClosedRunNeverWritten ==
  [][\A r \in OpRunIds :
       (OpsHandled(r) /\ ops.runs[r].closed)
         => ops'.diagnostics = ops.diagnostics]_vars

====
